---------------------------- MODULE Spec2Model ----------------------------
(***************************************************************************)
(* A model of the corporate-registry extraction pipeline (felipe007rj).    *)
(*                                                                         *)
(* Texts are sequences of one-character strings.  A character that is not  *)
(* ASCII is written as a named token that stands for ONE character:        *)
(*   "c_ced" = c with cedilla        "C_CED" = its capital                 *)
(*   "a_til" = a with tilde          "A_TIL" = its capital                 *)
(*   "a_acu" = a with acute          "A_ACU" = its capital                 *)
(*   "i_acu" = i with acute          "I_ACU" = its capital                 *)
(*   "e_cir" = e with circumflex     "E_CIR" = its capital                 *)
(*   "e_acu" = e with acute          "E_ACU" = its capital                 *)
(*   "o_acu" = o with acute          "O_ACU" = its capital                 *)
(*   "u_acu" = u with acute          "U_ACU" = its capital                 *)
(*   "~ced", "~til", "~acu", "~cir" = the combining cedilla, tilde, acute  *)
(*   and circumflex that NFKD decomposition puts after the base letter.    *)
(* "\n" is the line feed; "backtick" is the grave accent of a code fence.  *)
(*                                                                         *)
(* The module holds one specification per component of the pipeline; they  *)
(* share the variables, and a component's specification leaves the other   *)
(* components' variables at their idle values.                             *)
(***************************************************************************)
EXTENDS Integers, Sequences, FiniteSets, TLC

VARIABLES
    pc,               \* position of the component under analysis
    \* ---- CoreProcessor.process_pdfs / build_final_response
    message_uris,     \* data['pdf_uris'] of the message body, as received
    pdf_uris,         \* the local pdf_uris of process_pdfs (truncated to the cap)
    document_info,    \* self.receipt.document_info
    doc_index,        \* loop index i of process_pdfs
    processed_files,  \* processed_files (the DocumentRecords of the documents read)
    pdf_texts,        \* pdf_texts: for each text, whether it is non-empty
    conflicts,        \* the result of detect_potential_conflicts
    json_response,    \* the document_metadata block of the final response
    \* ---- DateExtractor
    date_input,       \* how the text was written: cue phrase, day, month, year, form
    ocr_text,         \* the text given to the extractor
    date_norm,        \* normalize_any(ocr_text)
    date_again,       \* normalize_any(date_norm)
    sig_date,         \* extract_signature_date_level_0(ocr_text)
    fmt_norm,         \* Formatters.normalize_date(ocr_text)
    fmt_again,        \* Formatters.normalize_date(fmt_norm)
    date_done,        \* the operations already applied to ocr_text
    \* ---- CNPJExtractor
    cnpj_text,        \* the text given to extract_from_ocr or to normalize
    cnpj_extracted,   \* extract_from_ocr(cnpj_text)
    cnpj_arg,         \* the argument x of the first normalize
    cnpj_norm,        \* normalize(x)
    cnpj_again,       \* normalize(normalize(x))
    \* ---- RepresentativeExtractor, RepresentativeValidator
    rep_input,        \* the representatives as the LLM gave them (records with the fields it wrote)
    rep_lines,        \* gemini_response.split('\n'): the same representatives as text blocks
    rep_detailed,     \* extract_detailed_representatives(rep_lines)
    rep_count,        \* calculate_count(rep_detailed)
    rep_refiltered,   \* validate_and_filter(rep_detailed)
    val_result,       \* RepresentativeValidator.validate_and_normalize(rep_input)
    val_again,        \* validate_and_normalize(val_result)
    \* ---- ProcuracaoProcessor
    proc_ocr,         \* ocr_full
    proc_data_in,     \* data_out as given to augment_with_procuracao
    proc_data_out,    \* data_out as returned
    \* ---- CoreProcessor.process_message, from the LLM response to the final record
    gem_input,        \* how the response was written: its form and the value of each field
    gem_response,     \* gemini_response
    gem_ocr,          \* ocr_text
    gem_parsed,       \* what extract_json_from_response returned
    gem_data,         \* data_out
    \* ---- the signature date of one document
    prox_input,       \* how the text was written: two dated phrases and what lies between them
    prox_text,        \* pdf_text
    prox_level0,      \* extract_signature_date_level_0(pdf_text)
    prox_found,       \* dates_found of find_signature_date_by_proximity, before the sort
    prox_date,        \* find_signature_date_by_proximity(pdf_text)
    prox_metadata,    \* extract_document_metadata(pdf_text, ...)
    \* ---- MultiDocumentProcessor.create_marked_document_text_no_priority
    mark_input,       \* doc_index, total_docs, file_name and pdf_text of the call
    mark_meta,        \* the metadata of the document
    mark_other,       \* metadata that differ from it in the priority fields only
    marked_text,      \* the marked text made with mark_meta
    marked_other,     \* the marked text made with mark_other
    \* ---- the public functions of the extractors, called one after the other
    ext_input,        \* the argument given to each function
    ext_results,      \* what each function called so far returned, or that it raised
    \* ---- CoreProcessor.process_loop and the queues of SQSService
    message_kinds,    \* what each message of the input queue holds: a valid or an invalid body
    input_queue,      \* the messages on the input queue (received messages stay until deleted)
    output_queue,     \* the messages whose record was delivered to the output queue
    dlq,              \* the messages whose body was delivered to the dead-letter queue
    msg,              \* the message process_loop holds, 0 for none
    success           \* what process_message returned for it

batchVars == <<message_uris, pdf_uris, document_info, doc_index, pdf_texts, json_response>>
docVars == <<processed_files, conflicts>>
dateVars == <<date_input, ocr_text, date_norm, date_again, sig_date, fmt_norm, fmt_again, date_done>>
cnpjVars == <<cnpj_text, cnpj_extracted, cnpj_arg, cnpj_norm, cnpj_again>>
\* The variables of the functions on texts.
repVars == <<rep_input, rep_lines, rep_detailed, rep_count, rep_refiltered, val_result, val_again>>
procVars == <<proc_ocr, proc_data_in, proc_data_out>>
gemVars == <<gem_input, gem_response, gem_ocr, gem_parsed, gem_data>>
proxVars == <<prox_input, prox_text, prox_level0, prox_found, prox_date, prox_metadata>>
markVars == <<mark_input, mark_meta, mark_other, marked_text, marked_other>>
extVars == <<ext_input, ext_results>>
moreVars == <<proxVars, markVars, extVars>>
textVars == <<dateVars, cnpjVars, repVars, procVars, gemVars, moreVars>>
loopVars == <<message_kinds, input_queue, output_queue, dlq, msg, success>>
vars == <<pc, batchVars, docVars, textVars, loopVars>>
\* What the actions of one component leave alone: the other components' variables.
outsideBatch == <<textVars, loopVars>>
outsideConflict == <<batchVars, textVars, loopVars>>
outsideDate == <<loopVars, batchVars, docVars, cnpjVars, repVars, procVars, gemVars, moreVars>>
outsideCnpj == <<loopVars, batchVars, docVars, dateVars, repVars, procVars, gemVars, moreVars>>
outsideReps == <<loopVars, batchVars, docVars, dateVars, cnpjVars, procVars, gemVars, moreVars>>
outsideProc == <<loopVars, batchVars, docVars, dateVars, cnpjVars, repVars, gemVars, moreVars>>
outsideGemini == <<loopVars, batchVars, docVars, dateVars, cnpjVars, repVars, procVars, moreVars>>
outsideFive == <<loopVars, batchVars, docVars, dateVars, cnpjVars, repVars, procVars, gemVars>>
outsideProx == <<outsideFive, markVars, extVars>>
outsideMark == <<outsideFive, proxVars, extVars>>
outsideExt == <<outsideFive, proxVars, markVars>>

\* Python's None: a value that is no text (texts are sequences of characters).
None == <<"<None>">>
\* Python's truth value of a text or None.
\* F(v), the value v being computed once.
Bind(v, F(_)) == CHOOSE r \in {F(w) : w \in {v}} : TRUE
Truthy(x) == x # None /\ x # <<>>

(***************************************************************************)
(* Characters and strings                                                  *)
(***************************************************************************)
Digits == {"0", "1", "2", "3", "4", "5", "6", "7", "8", "9"}
DigitSeq == <<"0", "1", "2", "3", "4", "5", "6", "7", "8", "9">>
LowerSeq == <<"a", "b", "c", "d", "e", "f", "g", "h", "i", "j", "k", "l", "m",
              "n", "o", "p", "q", "r", "s", "t", "u", "v", "w", "x", "y", "z",
              "c_ced", "a_til", "a_acu", "i_acu", "e_cir", "e_acu", "o_acu">>
UpperSeq == <<"A", "B", "C", "D", "E", "F", "G", "H", "I", "J", "K", "L", "M",
              "N", "O", "P", "Q", "R", "S", "T", "U", "V", "W", "X", "Y", "Z",
              "C_CED", "A_TIL", "A_ACU", "I_ACU", "E_CIR", "E_ACU", "O_ACU">>
AsciiLower == {LowerSeq[i] : i \in 1..26}
AsciiUpper == {UpperSeq[i] : i \in 1..26}
Whitespace == {" ", "\n", "\t"}

IndexIn(seq, c) == CHOOSE i \in 1..Len(seq) : seq[i] = c
InSeq(seq, c) == \E i \in 1..Len(seq) : seq[i] = c

\* str.lower() and str.upper() on one character.
LowerChar(c) == IF InSeq(UpperSeq, c) THEN LowerSeq[IndexIn(UpperSeq, c)] ELSE c
UpperChar(c) == IF InSeq(LowerSeq, c) THEN UpperSeq[IndexIn(LowerSeq, c)] ELSE c
Lower(s) == [i \in 1..Len(s) |-> LowerChar(s[i])]
Upper(s) == [i \in 1..Len(s) |-> UpperChar(s[i])]

\* s[from:] and s[:to] of Python, with 0-based offsets.
SliceFrom(s, from) == SubSeq(s, from + 1, Len(s))
SliceTo(s, to) == SubSeq(s, 1, IF to < Len(s) THEN to ELSE Len(s))

StartsWith(s, p) == Len(s) >= Len(p) /\ SubSeq(s, 1, Len(p)) = p
EndsWith(s, p) == Len(s) >= Len(p) /\ SubSeq(s, Len(s) - Len(p) + 1, Len(s)) = p
\* p occurs in s at 1-based position i.
OccursAt(s, p, i) == i >= 1 /\ i + Len(p) - 1 <= Len(s) /\ SubSeq(s, i, i + Len(p) - 1) = p
\* Python's "p in s".
Contains(s, p) == \E i \in 1..(Len(s) + 1) : OccursAt(s, p, i)

\* str.strip(): whitespace removed at both ends.
RECURSIVE LStrip(_)
LStrip(s) == IF s # <<>> /\ Head(s) \in Whitespace THEN LStrip(Tail(s)) ELSE s
RECURSIVE RStrip(_)
RStrip(s) == IF s # <<>> /\ s[Len(s)] \in Whitespace THEN RStrip(SubSeq(s, 1, Len(s) - 1)) ELSE s
Strip(s) == RStrip(LStrip(s))

\* str.split(sep) for a one-character separator: the pieces, in order.
RECURSIVE SplitChar(_, _)
SplitChar(s, sep) ==
    IF \A i \in 1..Len(s) : s[i] # sep THEN <<s>>
    ELSE LET k == CHOOSE i \in 1..Len(s) : s[i] = sep /\ \A j \in 1..(i - 1) : s[j] # sep
         IN <<SubSeq(s, 1, k - 1)>> \o SplitChar(SubSeq(s, k + 1, Len(s)), sep)

\* sep.join(parts)
RECURSIVE Join(_, _)
Join(parts, sep) ==
    IF parts = <<>> THEN <<>>
    ELSE IF Len(parts) = 1 THEN parts[1]
    ELSE parts[1] \o sep \o Join(Tail(parts), sep)

Last(seq) == seq[Len(seq)]
Max(S) == CHOOSE x \in S : \A y \in S : y <= x
Min(S) == CHOOSE x \in S : \A y \in S : x <= y

(***************************************************************************)
(* Numbers written as digit strings, calendar dates                        *)
(***************************************************************************)
DigitVal(c) == IndexIn(DigitSeq, c) - 1
\* int(s) for a string of decimal digits.
RECURSIVE ToInt(_)
ToInt(s) == IF s = <<>> THEN 0 ELSE 10 * ToInt(SubSeq(s, 1, Len(s) - 1)) + DigitVal(s[Len(s)])
\* str.zfill(2)
ZFill2(s) == IF Len(s) < 2 THEN [i \in 1..(2 - Len(s)) |-> "0"] \o s ELSE s
\* f"{n:02d}" for 0 <= n <= 99, and a 4-digit year.
TwoDigits(n) == <<DigitSeq[(n \div 10) + 1], DigitSeq[(n % 10) + 1]>>
FourDigits(n) == TwoDigits(n \div 100) \o TwoDigits(n % 100)
IsDigits(s) == \A i \in 1..Len(s) : s[i] \in Digits

IsLeap(y) == (y % 4 = 0 /\ y % 100 # 0) \/ y % 400 = 0
DaysInMonth(y, m) ==
    IF m = 2 THEN (IF IsLeap(y) THEN 29 ELSE 28)
    ELSE IF m \in {4, 6, 9, 11} THEN 30 ELSE 31
\* datetime(year, month, day) accepts exactly the dates of the proleptic Gregorian
\* calendar with 1 <= year <= 9999.
RealDate(y, m, d) == y \in 1..9999 /\ m \in 1..12 /\ d >= 1 /\ d <= DaysInMonth(y, m)
\* The ISO text YYYY-MM-DD of a date.
Iso(y, m, d) == FourDigits(y) \o <<"-">> \o TwoDigits(m) \o <<"-">> \o TwoDigits(d)
\* Days from 1970-01-01 to y-m-d (negative before 1970).
DaysFromCivil(y, m, d) ==
    LET yy == IF m <= 2 THEN y - 1 ELSE y
        era == yy \div 400
        yoe == yy - era * 400
        mp == (m + 9) % 12
        doy == (153 * mp + 2) \div 5 + d - 1
        doe == yoe * 365 + yoe \div 4 - yoe \div 100 + doy
    IN era * 146097 + doe - 719468

(***************************************************************************)
(* Regular expressions (Python's re), for the patterns the code uses.      *)
(* A pattern is a sequence of items; an item is a character class with a   *)
(* repetition range (greedy, or lazy as in ".*?"), or a zero-width test.   *)
(* Matching is by backtracking in the order of preference of re: a greedy  *)
(* item takes the longest run that lets the rest of the pattern match.     *)
(***************************************************************************)
Inf == 1000 * 1000
Cls(cs, lo, hi) == [k |-> "cls", cs |-> cs, lo |-> lo, hi |-> hi, lazy |-> FALSE]
Neg(cs, lo, hi) == [k |-> "neg", cs |-> cs, lo |-> lo, hi |-> hi, lazy |-> FALSE]
Lazy(it) == [it EXCEPT !.lazy = TRUE]
One(c) == Cls({c}, 1, 1)
Opt(c) == Cls({c}, 0, 1)
WordB == [k |-> "wb", cs |-> {}, lo |-> 0, hi |-> 0, lazy |-> FALSE]
Bol == [k |-> "bol", cs |-> {}, lo |-> 0, hi |-> 0, lazy |-> FALSE]
Eol == [k |-> "eol", cs |-> {}, lo |-> 0, hi |-> 0, lazy |-> FALSE]
\* The literal text t, one item per character.
Lit(t) == [i \in 1..Len(t) |-> One(t[i])]
\* (?:a|b|...): one of the literal texts of alts, tried in this order.
Alt(alts) == [k |-> "alt", cs |-> {}, lo |-> 0, hi |-> 0, lazy |-> FALSE,
              alts |-> [j \in 1..Len(alts) |-> Lit(alts[j])]]
\* (?:body){lo,hi}: the items of body, repeated; as many times as possible first.
Rep(body, lo, hi) == [k |-> "rep", cs |-> {}, lo |-> lo, hi |-> hi, lazy |-> FALSE, body |-> body]
\* re.IGNORECASE: every class also takes the other case of its characters.
RECURSIVE IgnoreCase(_)
IgnoreCase(pat) ==
    [i \in 1..Len(pat) |->
        IF pat[i].k = "alt"
        THEN [pat[i] EXCEPT !.alts = [j \in 1..Len(pat[i].alts) |-> IgnoreCase(pat[i].alts[j])]]
        ELSE IF pat[i].k = "rep"
        THEN [pat[i] EXCEPT !.body = IgnoreCase(pat[i].body)]
        ELSE [pat[i] EXCEPT !.cs = pat[i].cs \cup {LowerChar(c) : c \in pat[i].cs}
                                             \cup {UpperChar(c) : c \in pat[i].cs}]]

\* \w of a str pattern: letters (accented ones too), digits, underscore; a
\* combining mark is not a word character.
WordChars == {LowerSeq[i] : i \in 1..Len(LowerSeq)} \cup {UpperSeq[i] : i \in 1..Len(UpperSeq)}
             \cup Digits \cup {"_"}
IsWordAt(s, i) == i >= 1 /\ i <= Len(s) /\ s[i] \in WordChars
ItemTakes(it, c) == IF it.k = "neg" THEN c \notin it.cs ELSE c \in it.cs
\* The length of the longest run of characters of s from position i that item it takes.
RunLen(it, s, i, n) ==
    CHOOSE m \in n..(Len(s) - i + 1) :
        /\ \A j \in n..(m - 1) : j < it.hi /\ ItemTakes(it, s[i + j])
        /\ m >= it.hi \/ i + m > Len(s) \/ ~ItemTakes(it, s[i + m])
\* An item that takes exactly one character, and the number of such items in a row
\* from item k of pat on: they match in one way only.
TakesOne(it) == it.k \in {"cls", "neg"} /\ it.lo = 1 /\ it.hi = 1
OnesFrom(pat, k) ==
    Cardinality({e \in k..Len(pat) : \A j \in k..e : TakesOne(pat[j])})

\* The match of items k.. of pat at position i of s: <<>> when there is none, else
\* the start position of each item from k on, then the position after the match.
\* TryRun gives item k a run of n characters and, when the rest of the pattern does
\* not match after it, the next length in the order of preference (step is -1 for
\* a greedy item, +1 for a lazy one) up to last; with step 0 it gives the n items
\* from k on, which take one character each, the n characters they take.
\* TryAlt gives an alternation its alternative j and, when the rest of the pattern
\* does not match after it, the next alternative.
\* TryRep gives a repeated group one more repetition and, when the pattern does not
\* match that way, no more repetitions if it has had lo of them.
RECURSIVE MatchFrom(_, _, _, _)
RECURSIVE TryRun(_, _, _, _, _, _, _)
RECURSIVE TryAlt(_, _, _, _, _)
RECURSIVE TryRep(_, _, _, _)
TryRep(pat, k, s, i) ==
    LET it == pat[k]
        again == [it EXCEPT !.lo = IF it.lo > 0 THEN it.lo - 1 ELSE 0,
                            !.hi = IF it.hi = Inf THEN Inf ELSE it.hi - 1]
        more == IF it.hi < 1 THEN <<>>
                ELSE MatchFrom(it.body \o <<again>> \o SubSeq(pat, k + 1, Len(pat)), 1, s, i)
        rest == IF it.lo > 0 THEN <<>> ELSE MatchFrom(pat, k + 1, s, i)
    IN IF more # <<>> THEN <<i>> \o SubSeq(more, Len(it.body) + 2, Len(more))
       ELSE IF rest # <<>> THEN <<i>> \o rest
       ELSE <<>>
TryAlt(pat, k, s, i, j) ==
    IF j > Len(pat[k].alts) THEN <<>>
    ELSE LET alt == pat[k].alts[j]
             m == MatchFrom(alt \o SubSeq(pat, k + 1, Len(pat)), 1, s, i)
         IN IF m # <<>> THEN <<i>> \o SubSeq(m, Len(alt) + 1, Len(m))
            ELSE TryAlt(pat, k, s, i, j + 1)
TryRun(pat, k, s, i, n, last, step) ==
    LET rest == MatchFrom(pat, IF step = 0 THEN k + n ELSE k + 1, s, i + n)
    IN IF rest # <<>> THEN (IF step = 0 THEN [j \in 1..n |-> i + j - 1] ELSE <<i>>) \o rest
       ELSE IF n = last THEN <<>>
       ELSE TryRun(pat, k, s, i, n + step, last, step)
\* Item k gets the longest run it takes, at least lo characters of it; or, the
\* item being the first of ones items that take one character each, these items get
\* the next ones characters.
LongestRun(pat, k, s, i, ones, run, lo) ==
    IF run < lo THEN <<>>
    ELSE TryRun(pat, k, s, i, IF pat[k].lazy THEN lo ELSE run, IF pat[k].lazy THEN run ELSE lo,
                IF ones > 0 THEN 0 ELSE IF pat[k].lazy THEN 1 ELSE 0 - 1)
RunOfOnes(pat, k, s, i, ones) ==
    LongestRun(pat, k, s, i, ones,
               IF ones = 0 THEN RunLen(pat[k], s, i, 0)
               ELSE IF /\ i + ones - 1 <= Len(s)
                       /\ \A j \in 0..(ones - 1) : ItemTakes(pat[k + j], s[i + j])
               THEN ones ELSE 0,
               IF ones = 0 THEN pat[k].lo ELSE ones)
MatchFrom(pat, k, s, i) ==
    CASE k > Len(pat) -> <<i>>
      [] k <= Len(pat) /\ pat[k].k \in {"wb", "bol", "eol"} ->
            LET holds == CASE pat[k].k = "wb" -> IsWordAt(s, i - 1) # IsWordAt(s, i)
                           [] pat[k].k = "bol" -> i = 1
                           [] OTHER -> i = Len(s) + 1 \/ (i = Len(s) /\ s[i] = "\n")
                rest == IF holds THEN MatchFrom(pat, k + 1, s, i) ELSE <<>>
            IN IF rest = <<>> THEN <<>> ELSE <<i>> \o rest
      [] k <= Len(pat) /\ pat[k].k = "alt" -> TryAlt(pat, k, s, i, 1)
      [] k <= Len(pat) /\ pat[k].k = "rep" -> TryRep(pat, k, s, i)
      [] OTHER ->
            RunOfOnes(pat, k, s, i, IF TakesOne(pat[k]) /\ i <= Len(s) /\ ItemTakes(pat[k], s[i])
                                    THEN OnesFrom(pat, k) ELSE 0)

\* The first of the values of at, in the order of its domain, that is not <<>>;
\* <<>> when there is none.
FirstNonEmpty(at) ==
    IF \A j \in DOMAIN at : at[j] = <<>> THEN <<>>
    ELSE at[CHOOSE j \in DOMAIN at : at[j] # <<>> /\ \A h \in DOMAIN at : h < j => at[h] = <<>>]
MatchStart(m) == m[1]
MatchEnd(m) == m[Len(m)]
\* The text of the group made of items a..b of the pattern.
Group(s, m, a, b) == SubSeq(s, m[a], m[b + 1] - 1)
\* re.match: at the start of s.
ReMatch(pat, s) == MatchFrom(pat, 1, s, 1)
\* re.search from position from: the match at the leftmost position where there is
\* one, <<>> when none.
ReSearchFrom(pat, s, from) ==
    FirstNonEmpty([j \in 1..(Len(s) + 2 - from) |-> MatchFrom(pat, 1, s, from + j - 1)] \o <<>>)
ReSearch(pat, s) == ReSearchFrom(pat, s, 1)
\* re.finditer: the successive non-overlapping matches, in order.
RECURSIVE FindIterFrom(_, _, _)
FindIterFrom(pat, s, from) ==
    LET m == ReSearchFrom(pat, s, from)
    IN IF m = <<>> THEN <<>>
       ELSE <<m>> \o FindIterFrom(pat, s, IF MatchEnd(m) > MatchStart(m) THEN MatchEnd(m)
                                           ELSE MatchEnd(m) + 1)
FindIter(pat, s) == FindIterFrom(pat, s, 1)
\* re.sub(pat, "", s) for a one-item class pattern: the characters it takes are dropped.
DropChars(s, it) == SelectSeq(s, LAMBDA c : ~ItemTakes(it, c))

(***************************************************************************)
(* DocumentRecord: the metadata of one document                            *)
(* (DocumentExtractor.extract_document_metadata)                           *)
(***************************************************************************)
SecondsPerDay == 24 * 60 * 60
\* datetime.fromisoformat accepts the text YYYY-MM-DD of a real date.
IsIsoShape(t) ==
    /\ Len(t) = 10
    /\ t[5] = "-" /\ t[8] = "-"
    /\ \A i \in {1, 2, 3, 4, 6, 7, 9, 10} : t[i] \in Digits
IsoYear(t) == ToInt(SubSeq(t, 1, 4))
IsoMonth(t) == ToInt(SubSeq(t, 6, 7))
IsoDay(t) == ToInt(SubSeq(t, 9, 10))
FromIsoFormatOk(t) == IsIsoShape(t) /\ RealDate(IsoYear(t), IsoMonth(t), IsoDay(t))
\* int(datetime.fromisoformat(t).timestamp()), the process running in UTC.
Timestamp(t) == DaysFromCivil(IsoYear(t), IsoMonth(t), IsoDay(t)) * SecondsPerDay

_calculate_document_priority(signature_date, registration_date) ==
    LET date_str == IF Truthy(registration_date) THEN registration_date ELSE signature_date
    IN IF ~Truthy(date_str) THEN 0
       ELSE IF FromIsoFormatOk(date_str) THEN Timestamp(date_str)
       ELSE 0

(***************************************************************************)
(* MultiDocumentProcessor                                                  *)
(***************************************************************************)
ACCESSORY_TYPES == {"PROCURACAO", "ADITAMENTO", "CERTIDAO", "FICHA_CADASTRAL"}
CORPORATE_TYPES == {"ESTATUTO_SOCIAL", "ATA_DE_ASSEMBLEIA", "ATA_DE_ELEICAO", "CONTRATO_SOCIAL"}
OneYearSeconds == 31536000

\* The order of str comparison on the characters of an ISO date.
CharRank(c) == IF c = "-" THEN 0 ELSE IF c \in Digits THEN 1 + DigitVal(c) ELSE 11
RECURSIVE StrLess(_, _)
StrLess(a, b) ==
    IF b = <<>> THEN FALSE
    ELSE IF a = <<>> THEN TRUE
    ELSE IF Head(a) # Head(b) THEN CharRank(Head(a)) < CharRank(Head(b))
    ELSE StrLess(Tail(a), Tail(b))
\* sorted(S) for a set of texts.
RECURSIVE Sorted(_)
Sorted(S) ==
    IF S = {} THEN <<>>
    ELSE LET m == CHOOSE x \in S : \A y \in S \ {x} : StrLess(x, y)
         IN <<m>> \o Sorted(S \ {m})

\* The keys of type_dates in insertion order: the document types in order of
\* first occurrence.
RECURSIVE TypesInOrder(_, _)
TypesInOrder(files, seen) ==
    IF files = <<>> THEN <<>>
    ELSE IF Head(files).document_type \in seen THEN TypesInOrder(Tail(files), seen)
    ELSE <<Head(files).document_type>>
         \o TypesInOrder(Tail(files), seen \cup {Head(files).document_type})
\* type_dates[doc_type]: the signature dates of that type, in order, absent ones skipped.
TypeDates(files, doc_type) ==
    SelectSeq([i \in 1..Len(files) |->
                  IF files[i].document_type = doc_type /\ Truthy(files[i].signature_date)
                  THEN files[i].signature_date ELSE None],
              LAMBDA d : d # None)
SeqToSet(seq) == {seq[i] : i \in 1..Len(seq)}

MultipleDatesWarning(doc_type, dates) ==
    [label |-> "Multiplas datas para", doc_type |-> doc_type,
     dates |-> Join(Sorted(SeqToSet(dates)), <<",", " ">>)]
TemporalSpreadWarning ==
    [label |-> "Documentos com diferenca temporal > 1 ano", doc_type |-> "", dates |-> <<>>]

\* A variant that counts the dates without removing the repeated ones.
HasMultipleDatesCounted(dates) == Len(dates) > 1
\* The first loop's verdict on one type: len(set(dates)) > 1.
HasMultipleDates(dates) == Cardinality(SeqToSet(dates)) > 1

detect_potential_conflicts(files) ==
    IF Len(files) < 2 THEN <<>>
    ELSE LET types == TypesInOrder(files, {})
             flagged == SelectSeq(types, LAMBDA t : HasMultipleDates(TypeDates(files, t)))
             byType == [i \in 1..Len(flagged) |->
                           MultipleDatesWarning(flagged[i], TypeDates(files, flagged[i]))]
             dated == {i \in 1..Len(files) : files[i].priority_score > 0}
             scores == {files[i].priority_score : i \in dated}
             spread == IF Cardinality(dated) > 1
                          /\ Max(scores) - Min(scores) > OneYearSeconds
                       THEN <<TemporalSpreadWarning>> ELSE <<>>
         IN byType \o spread

\* ---- detect_potential_conflicts on its own ------------------------------
MaxConflictDocs == 3
DocTypeChoices == {"ATA_DE_ELEICAO", "PROCURACAO"}
SignatureDateChoices ==
    {None,
     <<"2", "0", "2", "2", "-", "0", "1", "-", "0", "1">>,
     <<"2", "0", "2", "2", "-", "0", "6", "-", "0", "1">>,
     <<"2", "0", "2", "3", "-", "0", "6", "-", "0", "2">>}
FileNameOf(i) == <<"f", DigitSeq[(i % 10) + 1]>>
\* A DocumentRecord as extract_document_metadata builds it from a text in which it
\* found this type and this signature date, and no registration date or number.
DocumentRecord(i, file_name, doc_type, signature_date) ==
    [document_index |-> i, file_name |-> file_name, document_type |-> doc_type,
     signature_date |-> signature_date, registration_date |-> None,
     document_number |-> None,
     priority_score |-> _calculate_document_priority(signature_date, None)]
DocumentLists ==
    UNION {[1..n -> DocTypeChoices \X SignatureDateChoices] : n \in 0..MaxConflictDocs}

IdleBatch ==
    /\ message_uris = <<>> /\ pdf_uris = <<>> /\ document_info = <<>>
    /\ doc_index = 0 /\ pdf_texts = <<>> /\ json_response = <<>>
IdleDoc == processed_files = <<>> /\ conflicts = <<>>
IdleDate ==
    /\ date_input = <<>> /\ ocr_text = <<>>
    /\ date_norm = None /\ date_again = None /\ sig_date = None
    /\ fmt_norm = None /\ fmt_again = None /\ date_done = {}
IdleCnpj ==
    /\ cnpj_text = <<>> /\ cnpj_extracted = None /\ cnpj_arg = None
    /\ cnpj_norm = None /\ cnpj_again = None
IdleReps ==
    /\ rep_input = <<>> /\ rep_lines = <<>> /\ rep_detailed = <<>> /\ rep_count = 0
    /\ rep_refiltered = <<>> /\ val_result = <<>> /\ val_again = <<>>
IdleProc == proc_ocr = <<>> /\ proc_data_in = <<>> /\ proc_data_out = <<>>
IdleGemini ==
    /\ gem_input = <<>> /\ gem_response = <<>> /\ gem_ocr = <<>>
    /\ gem_parsed = <<>> /\ gem_data = <<>>
IdleProx ==
    /\ prox_input = <<>> /\ prox_text = <<>> /\ prox_level0 = None
    /\ prox_found = <<>> /\ prox_date = None /\ prox_metadata = <<>>
IdleMark ==
    /\ mark_input = <<>> /\ mark_meta = <<>> /\ mark_other = <<>>
    /\ marked_text = <<>> /\ marked_other = <<>>
IdleExt == ext_input = <<>> /\ ext_results = <<>>
IdleLoop ==
    /\ message_kinds = <<>> /\ input_queue = {} /\ output_queue = {} /\ dlq = {}
    /\ msg = 0 /\ success = FALSE
IdleMore == IdleProx /\ IdleMark /\ IdleExt
IdleText == IdleDate /\ IdleCnpj /\ IdleReps /\ IdleProc /\ IdleGemini /\ IdleMore

InitConflict ==
    /\ pc = "conflict_start"
    /\ \E l \in DocumentLists :
          processed_files = [i \in 1..Len(l) |-> DocumentRecord(i, FileNameOf(i), l[i][1], l[i][2])]
    /\ conflicts = <<>>
    /\ IdleBatch /\ IdleText /\ IdleLoop

DetectPotentialConflicts ==
    /\ pc = "conflict_start"
    /\ conflicts' = detect_potential_conflicts(processed_files)
    /\ pc' = "conflict_done"
    /\ UNCHANGED <<processed_files, outsideConflict>>

NextConflict == DetectPotentialConflicts
SpecConflict == InitConflict /\ [][NextConflict]_vars

\* The distinct non-absent signature dates of the documents of one type.
DistinctDatesOf(files, doc_type) ==
    {files[i].signature_date :
        i \in {j \in 1..Len(files) : /\ files[j].document_type = doc_type
                                     /\ files[j].signature_date # None}}
MultipleDatesWarningsFor(doc_type) ==
    {j \in 1..Len(conflicts) : /\ conflicts[j].label = "Multiplas datas para"
                               /\ conflicts[j].doc_type = doc_type}

\* C6: for a list of two or more DocumentRecords, detect_potential_conflicts emits
\* exactly one multiple-dates warning for each document type that has more than one
\* distinct non-absent signature date, the warning names the type and lists every
\* distinct date of the type, and a type with at most one distinct signature date
\* gets no such warning.
C6_OneWarningPerConflictingType ==
    (pc = "conflict_done" /\ Len(processed_files) >= 2) =>
        \A t \in DocTypeChoices :
            LET ds == DistinctDatesOf(processed_files, t)
                ws == MultipleDatesWarningsFor(t)
            IN IF Cardinality(ds) > 1
               THEN /\ Cardinality(ws) = 1
                    /\ \A j \in ws : \A d \in ds : Contains(conflicts[j].dates, d)
               ELSE ws = {}
\* Two ATA_DE_ELEICAO documents dated 2022-01-01 and 2022-06-01 (one of them seen
\* twice) have been analysed and one warning came out.
C6_Witness ==
    /\ pc = "conflict_done"
    /\ Len(processed_files) = 3
    /\ \A i \in 1..3 : processed_files[i].document_type = "ATA_DE_ELEICAO"
    /\ processed_files[1].signature_date = <<"2", "0", "2", "2", "-", "0", "1", "-", "0", "1">>
    /\ processed_files[2].signature_date = <<"2", "0", "2", "2", "-", "0", "6", "-", "0", "1">>
    /\ processed_files[3].signature_date = processed_files[1].signature_date
    /\ Len(conflicts) = 1
    /\ conflicts[1].doc_type = "ATA_DE_ELEICAO"

(***************************************************************************)
(* MultiDocumentProcessor.analyze_document_priority, generate_changes_summary *)
(***************************************************************************)
\* sorted(files, key=priority_score, reverse=True): stable, so documents of equal
\* score keep their order.
RECURSIVE SortedByPriority(_)
SortedByPriority(files) ==
    IF files = <<>> THEN <<>>
    ELSE LET top == Max({files[i].priority_score : i \in 1..Len(files)})
             k == Min({i \in 1..Len(files) : files[i].priority_score = top})
         IN <<files[k]>> \o SortedByPriority(SubSeq(files, 1, k - 1) \o SubSeq(files, k + 1, Len(files)))

analyze_document_priority(files) ==
    LET sorted_by_priority == SortedByPriority(files)
        highest == sorted_by_priority[1]
        corporate == {i \in 1..Len(files) : files[i].document_type \in CORPORATE_TYPES}
    IN [most_recent_document |-> highest.file_name,
        corporate_document_reference |->
            IF corporate = {} THEN None ELSE files[Min(corporate)].file_name,
        complementation_needed |-> highest.document_type \in ACCESSORY_TYPES,
        documents_by_priority |->
            [i \in 1..Len(sorted_by_priority) |-> sorted_by_priority[i].file_name]]

\* The lines of the summary that come from the documents' metadata (the lines that
\* depend on words of the LLM response are left out); never empty.
generate_changes_summary(files) ==
    LET types == {files[i].document_type : i \in 1..Len(files)}
        corporate_dates == {files[i].signature_date :
                               i \in {j \in 1..Len(files) :
                                         /\ files[j].document_type \in CORPORATE_TYPES
                                         /\ Truthy(files[j].signature_date)}}
        changes ==
            (IF "PROCURACAO" \in types THEN <<"Procuracoes detectadas e IGNORADAS">> ELSE <<>>)
            \o (IF types \cap ACCESSORY_TYPES # {} /\ types \cap CORPORATE_TYPES # {}
                THEN <<"Documentos acessorios complementando">> ELSE <<>>)
            \o (IF "ATA_DE_ASSEMBLEIA" \in types THEN <<"Ata de Assembleia detectada">> ELSE <<>>)
            \o (IF "ATA_DE_ELEICAO" \in types THEN <<"Ata de Eleicao detectada">> ELSE <<>>)
            \o (IF "CONTRATO_SOCIAL" \in types THEN <<"Contrato Social/Alteracao">> ELSE <<>>)
            \o (IF Cardinality(corporate_dates) > 1 THEN <<"Multiplas datas em documentos corporativos">> ELSE <<>>)
    IN IF Len(files) < 2 THEN <<"Documento unico - sem mudancas a comparar">>
       ELSE IF changes = <<>> THEN <<"Multiplos documentos sem mudancas significativas identificadas">>
       ELSE changes

(***************************************************************************)
(* ResponseBuilder.build_response: the document_metadata block             *)
(***************************************************************************)
\* doc.split('/')[-1] if '/' in doc else doc
FileName(uri) == IF Contains(uri, <<"/">>) THEN Last(SplitChar(uri, "/")) ELSE uri

\* analysed: whether build_final_response ran the multi-document analysis (otherwise
\* priority_analysis, changes_summary and conflicts are None).
build_response_metadata(info, analysed, priority_analysis, changes_summary, conflict_list) ==
    LET base == [total_documents |-> info.total_documents,
                 processed_documents |-> info.processed_documents,
                 is_multiple_documents |-> info.is_multiple_documents,
                 processing_type |-> IF info.is_multiple_documents THEN "LOTE" ELSE "UNICO",
                 exceeded_limit |-> info.exceeded_limit]
        ignored == info.ignored_documents
        m1 == IF info.exceeded_limit /\ ignored # <<>>
              THEN base @@ [warning |->
                               [total |-> info.total_documents,
                                processed |-> info.processed_documents,
                                ignored |-> Len(ignored)],
                            ignored_documents |-> [i \in 1..Len(ignored) |-> FileName(ignored[i])]]
              ELSE base
        m2 == IF analysed THEN m1 @@ [priority_analysis |-> priority_analysis] ELSE m1
        m3 == IF analysed /\ changes_summary # <<>>
              THEN m2 @@ [changes_summary |-> changes_summary] ELSE m2
    IN IF analysed /\ conflict_list # <<>>
       THEN m3 @@ [conflict_warnings |-> conflict_list] ELSE m3

(***************************************************************************)
(* CoreProcessor.process_pdfs and build_final_response                     *)
(***************************************************************************)
MAX_DOCUMENTS == 3
MaxUris == 5
UriPool ==
    <<<<"s", "3", ":", "/", "/", "b", "/", "a">>,
      <<"s", "3", ":", "/", "/", "b", "/", "d", "/", "c">>,
      <<"s", "3", ":", "/", "/", "b", "/", "e">>,
      <<"s", "3", ":", "/", "/", "b", "/", "d", "/", "g">>,
      <<"s", "3", ":", "/", "/", "k", "/", "h">>,
      <<"s", "3", ":", "/", "/", "k", "/", "j">>>>
\* The lists of URIs a valid message carries (MessageValidator: at least one URI,
\* each starting with s3://).
UriLists ==
    {[i \in 1..n |-> UriPool[((i - 1 + shift) % Len(UriPool)) + 1]] :
        n \in 1..MaxUris, shift \in {0, 1}}
BatchDateChoices ==
    {None,
     <<"1", "9", "6", "9", "-", "1", "2", "-", "3", "1">>,
     <<"2", "0", "2", "2", "-", "0", "1", "-", "0", "1">>,
     <<"2", "0", "2", "3", "-", "0", "6", "-", "0", "2">>}

InitBatch ==
    /\ pc = "start"
    /\ message_uris \in UriLists
    /\ pdf_uris = <<>> /\ document_info = <<>>
    /\ doc_index = 0 /\ pdf_texts = <<>> /\ json_response = <<>>
    /\ IdleDoc /\ IdleText /\ IdleLoop

\* process_pdfs up to the loop: the cap and receipt.document_info.
ProcessPdfsBegin ==
    /\ pc = "start"
    /\ LET total_docs == Len(message_uris)
           truncated == IF total_docs > MAX_DOCUMENTS
                        THEN SliceTo(message_uris, MAX_DOCUMENTS) ELSE message_uris
       IN /\ pdf_uris' = truncated
          /\ document_info' =
                [total_documents |-> total_docs,
                 processed_documents |-> Len(truncated),
                 is_multiple_documents |-> Len(truncated) > 1,
                 exceeded_limit |-> total_docs > MAX_DOCUMENTS,
                 ignored_documents |-> IF total_docs > MAX_DOCUMENTS
                                       THEN SliceFrom(truncated, MAX_DOCUMENTS) ELSE <<>>]
    /\ doc_index' = 1
    /\ pc' = "loop"
    /\ UNCHANGED <<message_uris, pdf_texts, json_response, docVars, outsideBatch>>

\* One pass of the loop whose download fails: the document is skipped.
DownloadFails ==
    /\ pc = "loop" /\ doc_index <= Len(pdf_uris)
    /\ doc_index' = doc_index + 1
    /\ UNCHANGED <<pc, message_uris, pdf_uris, document_info, pdf_texts, json_response, docVars, outsideBatch>>

\* One pass of the loop for a document that is downloaded and read: its metadata
\* is whatever the extractors find in its text.
ProcessDocument ==
    /\ pc = "loop" /\ doc_index <= Len(pdf_uris)
    /\ \E doc_type \in DocTypeChoices, signature_date \in BatchDateChoices, has_text \in BOOLEAN :
          /\ processed_files' = Append(processed_files,
                DocumentRecord(doc_index, FileName(pdf_uris[doc_index]), doc_type, signature_date))
          \* a marked text is never empty; the text of a single document may be
          /\ pdf_texts' = Append(pdf_texts, Len(pdf_uris) > 1 \/ has_text)
          /\ (Len(pdf_uris) > 1 => has_text)
    /\ doc_index' = doc_index + 1
    /\ UNCHANGED <<pc, message_uris, pdf_uris, document_info, json_response, conflicts, outsideBatch>>

\* "\n\n".join(pdf_texts) is not empty.
OcrTextNonEmpty == Len(pdf_texts) >= 2 \/ (Len(pdf_texts) = 1 /\ pdf_texts[1])

\* process_message: no text came out of process_pdfs, or the LLM call failed.
ProcessingFails ==
    /\ pc = "loop" /\ doc_index > Len(pdf_uris)
    /\ pc' = "failed"
    /\ UNCHANGED <<batchVars, docVars, outsideBatch>>

\* build_final_response: the analysis of several documents, then build_response.
BuildFinalResponse ==
    /\ pc = "loop" /\ doc_index > Len(pdf_uris)
    /\ OcrTextNonEmpty
    /\ LET analysed == Len(processed_files) > 1
           found == IF analysed THEN detect_potential_conflicts(processed_files) ELSE <<>>
       IN /\ conflicts' = found
          /\ json_response' = build_response_metadata(document_info, analysed,
                IF analysed THEN analyze_document_priority(processed_files) ELSE None,
                IF analysed THEN generate_changes_summary(processed_files) ELSE <<>>,
                found)
    /\ pc' = "done"
    /\ UNCHANGED <<message_uris, pdf_uris, document_info, doc_index, pdf_texts, processed_files, outsideBatch>>

NextBatch ==
    \/ ProcessPdfsBegin
    \/ DownloadFails
    \/ ProcessDocument
    \/ ProcessingFails
    \/ BuildFinalResponse
SpecBatch == InitBatch /\ [][NextBatch]_vars

\* C1: for a batch of more than 3 URIs, exactly the first 3 are processed and the
\* final document_metadata has exceeded_limit = true, an ignored_documents list
\* holding in order the file name of every URI beyond the third, and a warning.
C1_OverLimitListsIgnored ==
    (pc = "done" /\ Len(message_uris) > MAX_DOCUMENTS) =>
        /\ pdf_uris = SubSeq(message_uris, 1, MAX_DOCUMENTS)
        /\ json_response.processed_documents = MAX_DOCUMENTS
        /\ json_response.exceeded_limit
        /\ "ignored_documents" \in DOMAIN json_response
        /\ json_response.ignored_documents =
              [i \in 1..(Len(message_uris) - MAX_DOCUMENTS) |->
                  FileName(message_uris[MAX_DOCUMENTS + i])]
        /\ "warning" \in DOMAIN json_response

(***************************************************************************)
(* DateExtractor                                                           *)
(***************************************************************************)
\* \s and \d of a str pattern, on the characters of the model.
ReSpace == Whitespace
D(lo, hi) == Cls(Digits, lo, hi)
S1 == Cls(ReSpace, 1, Inf)
S0 == Cls(ReSpace, 0, Inf)
\* A pattern with its group 1: the items of body.
WithGroup(prefix, body) ==
    [pat |-> prefix \o body, a |-> Len(prefix) + 1, b |-> Len(prefix) + Len(body)]

\* r"^\d{4}-\d{2}-\d{2}$"
ISO_DATE_PATTERN == <<Bol, D(4, 4), One("-"), D(2, 2), One("-"), D(2, 2), Eol>>
\* r"(\d{1,2}/\d{1,2}/\d{4})"
SIMPLE_DATE_PATTERN == <<D(1, 2), One("/"), D(1, 2), One("/"), D(4, 4)>>
\* r"(\d{1,2})\s+de\s+([a-z]+)\s+de\s+(\d{4})": groups are items 1, 6 and 11.
MONTH_DATE_PATTERN ==
    <<D(1, 2), S1, One("d"), One("e"), S1, Cls(AsciiLower, 1, Inf), S1, One("d"), One("e"), S1, D(4, 4)>>
MONTH_NAMES ==
    <<<<<<"j", "a", "n", "e", "i", "r", "o">>, <<"0", "1">>>>,
      <<<<"f", "e", "v", "e", "r", "e", "i", "r", "o">>, <<"0", "2">>>>,
      <<<<"m", "a", "r", "c_ced", "o">>, <<"0", "3">>>>,
      <<<<"m", "a", "r", "c", "o">>, <<"0", "3">>>>,
      <<<<"a", "b", "r", "i", "l">>, <<"0", "4">>>>,
      <<<<"m", "a", "i", "o">>, <<"0", "5">>>>,
      <<<<"j", "u", "n", "h", "o">>, <<"0", "6">>>>,
      <<<<"j", "u", "l", "h", "o">>, <<"0", "7">>>>,
      <<<<"a", "g", "o", "s", "t", "o">>, <<"0", "8">>>>,
      <<<<"s", "e", "t", "e", "m", "b", "r", "o">>, <<"0", "9">>>>,
      <<<<"o", "u", "t", "u", "b", "r", "o">>, <<"1", "0">>>>,
      <<<<"n", "o", "v", "e", "m", "b", "r", "o">>, <<"1", "1">>>>,
      <<<<"d", "e", "z", "e", "m", "b", "r", "o">>, <<"1", "2">>>>>>
\* MONTH_NAMES.get(name): None when the name is no key.
MonthNumber(name) ==
    IF \E i \in 1..Len(MONTH_NAMES) : MONTH_NAMES[i][1] = name
    THEN MONTH_NAMES[CHOOSE i \in 1..Len(MONTH_NAMES) : MONTH_NAMES[i][1] = name][2]
    ELSE None

\* int(s) succeeds on a non-empty digit string; datetime() then accepts a real date.
_is_valid_date(day, month, year) ==
    /\ day # <<>> /\ month # <<>> /\ year # <<>>
    /\ IsDigits(day) /\ IsDigits(month) /\ IsDigits(year)
    /\ RealDate(ToInt(year), ToInt(month), ToInt(day))

\* The ISO branch: re.match(ISO_DATE_PATTERN, text).
IsoShaped(text) == ReMatch(ISO_DATE_PATTERN, text) # <<>>
\* The numeric branch: the first D/M/YYYY of the text, if it is a valid date.
SimpleDateOf(text) ==
    LET m == ReSearch(SIMPLE_DATE_PATTERN, text)
        parts == SplitChar(Group(text, m, 1, 5), "/")
    IN IF m # <<>> /\ _is_valid_date(parts[1], parts[2], parts[3])
       THEN parts[3] \o <<"-">> \o ZFill2(parts[2]) \o <<"-">> \o ZFill2(parts[1])
       ELSE None
\* The extended branch: the first "D de MES de YYYY" of the text.
MonthDateOf(text) ==
    LET m == ReSearch(IgnoreCase(MONTH_DATE_PATTERN), text)
        day == Group(text, m, 1, 1)
        month == MonthNumber(Lower(Group(text, m, 6, 6)))
        year == Group(text, m, 11, 11)
    IN IF m # <<>> /\ month # None /\ _is_valid_date(day, month, year)
       THEN year \o <<"-">> \o month \o <<"-">> \o ZFill2(day)
       ELSE None

normalize_any(raw) ==
    IF ~Truthy(raw) THEN None
    ELSE LET text == Strip(raw)
         IN IF IsoShaped(text) THEN text
            ELSE IF SimpleDateOf(text) # None THEN SimpleDateOf(text)
            ELSE MonthDateOf(text)

\* unicodedata.normalize("NFKD", text): an accented letter becomes its base letter
\* followed by the combining accent.
NfkdChar(c) ==
    CASE c = "c_ced" -> <<"c", "~ced">>
      [] c = "C_CED" -> <<"C", "~ced">>
      [] c = "a_til" -> <<"a", "~til">>
      [] c = "A_TIL" -> <<"A", "~til">>
      [] c = "a_acu" -> <<"a", "~acu">>
      [] c = "A_ACU" -> <<"A", "~acu">>
      [] c = "i_acu" -> <<"i", "~acu">>
      [] c = "I_ACU" -> <<"I", "~acu">>
      [] c = "e_cir" -> <<"e", "~cir">>
      [] c = "E_CIR" -> <<"E", "~cir">>
      [] c = "e_acu" -> <<"e", "~acu">>
      [] c = "E_ACU" -> <<"E", "~acu">>
      [] c = "o_acu" -> <<"o", "~acu">>
      [] c = "O_ACU" -> <<"O", "~acu">>
      [] OTHER -> <<c>>
RECURSIVE Nfkd(_)
Nfkd(text) ==
    IF text = <<>> THEN <<>>
    ELSE IF Len(text) = 1 THEN NfkdChar(text[1])
    ELSE Nfkd(SubSeq(text, 1, Len(text) \div 2)) \o Nfkd(SubSeq(text, (Len(text) \div 2) + 1, Len(text)))

NumericDateItems == <<D(1, 2), Cls({"/", "-"}, 1, 1), D(1, 2), Cls({"/", "-"}, 1, 1), D(4, 4)>>
ExtendedDateItems ==
    <<D(1, 2), S1, One("d"), One("e"), S1, Cls(AsciiLower, 1, Inf), S1, One("d"), One("e"), S1, D(4, 4)>>
CueEm(word) == Lit(word) \o <<S1>> \o Lit(<<"e", "m">>) \o <<S1>>
\* signature_patterns of extract_signature_date_level_0, in the order of the list.
signature_patterns ==
    <<WithGroup(CueEm(<<"a", "s", "s", "i", "n", "a", "d", "o">>), NumericDateItems),
      WithGroup(CueEm(<<"f", "i", "r", "m", "a", "d", "o">>), NumericDateItems),
      WithGroup(CueEm(<<"s", "u", "b", "s", "c", "r", "i", "t", "o">>), NumericDateItems),
      WithGroup(Lit(<<"d", "a", "t", "a", "d", "o">>) \o <<S1>> \o Lit(<<"d", "e">>) \o <<S1>>,
                NumericDateItems),
      WithGroup(Lit(<<"S", "a_til", "o">>) \o <<S1>> \o Lit(<<"P", "a", "u", "l", "o">>)
                    \o <<Opt(","), S0>>,
                NumericDateItems),
      WithGroup(CueEm(<<"a", "s", "s", "i", "n", "a", "d", "o">>), ExtendedDateItems),
      WithGroup(CueEm(<<"f", "i", "r", "m", "a", "d", "o">>), ExtendedDateItems)>>

\* The first match of the list whose group normalizes to a date.
RECURSIVE FirstNormalized(_, _, _)
FirstNormalized(text, p, matches) ==
    IF matches = <<>> THEN None
    ELSE LET normalized == normalize_any(Group(text, Head(matches), p.a, p.b))
         IN IF normalized # None THEN normalized ELSE FirstNormalized(text, p, Tail(matches))
RECURSIVE FirstOfPatterns(_, _, _)
FirstOfPatterns(text, patterns, k) ==
    IF k > Len(patterns) THEN None
    ELSE LET found == FirstNormalized(text, patterns[k], FindIter(patterns[k].pat, text))
         IN IF found # None THEN found ELSE FirstOfPatterns(text, patterns, k + 1)

\* The text the patterns are run on: NFKD, then lower case.
Level0Text(text) == Lower(Nfkd(text))
extract_signature_date_level_0(text) ==
    IF ~Truthy(text) THEN None
    ELSE FirstOfPatterns(Level0Text(text), signature_patterns, 1)

(***************************************************************************)
(* DateExtractor.find_signature_date_by_proximity                          *)
(***************************************************************************)
\* r"\d+\s+de\s+[a-z]+\s+de\s+\d{4}"
EXTENDED_DATE_PATTERN ==
    <<D(1, Inf), S1, One("d"), One("e"), S1, Cls(AsciiLower, 1, Inf), S1, One("d"), One("e"), S1, D(4, 4)>>
\* The context of _is_date_in_law_context: 100 characters before the date.
LawContextSize == 100
\* window_size of _count_names_near_date and _check_signature_section_proximity.
window_size == 500
law_keywords ==
    <<<<"l", "e", "i">>,
      <<"d", "e", "c", "r", "e", "t", "o">>,
      <<"p", "o", "r", "t", "a", "r", "i", "a">>,
      <<"r", "e", "s", "o", "l", "u", "c_ced", "a_til", "o">>,
      <<"m", "e", "d", "i", "d", "a", " ", "p", "r", "o", "v", "i", "s", "o_acu", "r", "i", "a">>>>
signature_keywords ==
    <<<<"a", "s", "s", "i", "n", "a", "t", "u", "r", "a">>,
      <<"a", "s", "s", "i", "n", "a">>,
      <<"t", "e", "s", "t", "e", "m", "u", "n", "h", "a">>,
      <<"s", "o_acu", "c", "i", "o">>,
      <<"a", "d", "m", "i", "n", "i", "s", "t", "r", "a", "d", "o", "r">>,
      <<"d", "i", "r", "e", "t", "o", "r">>,
      <<"p", "r", "e", "s", "i", "d", "e", "n", "t", "e">>,
      <<"o", "u", "t", "o", "r", "g", "a", "n", "t", "e">>,
      <<"o", "u", "t", "o", "r", "g", "a", "d", "o">>>>
\* str.find(p): the 0-based offset of the first occurrence, -1 when there is none.
FindText(s, p) ==
    IF Contains(s, p)
    THEN (CHOOSE i \in 1..(Len(s) + 1) : OccursAt(s, p, i) /\ \A j \in 1..(i - 1) : ~OccursAt(s, p, j)) - 1
    ELSE 0 - 1
\* text[max(0, position - size):min(len(text), position + size)]
WindowAround(text, position, size) ==
    SubSeq(text, (IF position - size > 0 THEN position - size ELSE 0) + 1,
           IF position + size < Len(text) THEN position + size ELSE Len(text))
\* The keywords are looked for in the 100 characters before the FIRST occurrence of
\* date_str in the text.
_is_date_in_law_context(text, date_str) ==
    LET date_position == FindText(text, date_str)
        window_start == IF date_position - LawContextSize > 0 THEN date_position - LawContextSize ELSE 0
        context_lower == Lower(SubSeq(text, window_start + 1, date_position))
    IN /\ date_position # 0 - 1
       /\ \E k \in 1..Len(law_keywords) : Contains(context_lower, law_keywords[k])
\* r'\b[A-Z][a-z]+(?:\s+[A-Z][a-z]+)+\b'
name_pattern ==
    <<WordB, Cls(AsciiUpper, 1, 1), Cls(AsciiLower, 1, Inf),
      Rep(<<S1, Cls(AsciiUpper, 1, 1), Cls(AsciiLower, 1, Inf)>>, 1, Inf), WordB>>
\* len(re.findall(name_pattern, context))
_count_names_near_date(text, date_position) ==
    Len(FindIter(name_pattern, WindowAround(text, date_position, window_size)))
\* 10 for each keyword that the lower-cased window holds.
_check_signature_section_proximity(text, position) ==
    Bind(Lower(WindowAround(text, position, window_size)), LAMBDA context :
        10 * Cardinality({k \in 1..Len(signature_keywords) : Contains(context, signature_keywords[k])}))
\* One pass of a loop of find_signature_date_by_proximity: what the match at 0-based
\* position adds to dates_found.
DateCandidate(text, date_str, position) ==
    Bind(normalize_any(date_str), LAMBDA normalized :
        IF ~Truthy(normalized) THEN <<>>
        ELSE IF _is_date_in_law_context(text, date_str) THEN <<>>
        ELSE <<[normalized |-> normalized, date_str |-> date_str,
                total_score |-> _check_signature_section_proximity(text, position)
                                + _count_names_near_date(text, position) * 10]>>)
\* The candidates of the matches of one pattern, in the order of the matches; the
\* date text is the whole match.
RECURSIVE DateCandidates(_, _)
DateCandidates(text, matches) ==
    IF matches = <<>> THEN <<>>
    ELSE DateCandidate(text, SubSeq(text, MatchStart(Head(matches)), MatchEnd(Head(matches)) - 1),
                       MatchStart(Head(matches)) - 1)
         \o DateCandidates(text, Tail(matches))
\* dates_found after the two loops: the numeric dates, then the extended ones.
dates_found(text_normalized) ==
    DateCandidates(text_normalized, FindIter(IgnoreCase(SIMPLE_DATE_PATTERN), text_normalized))
    \o DateCandidates(text_normalized, FindIter(IgnoreCase(EXTENDED_DATE_PATTERN), text_normalized))
\* dates_found.sort(key=score, reverse=True)[0]: the sort is stable, so the first of
\* the list among those of the highest score.
HighestScored(found) ==
    found[CHOOSE i \in 1..Len(found) :
              /\ \A j \in 1..Len(found) : found[j].total_score <= found[i].total_score
              /\ \A j \in 1..(i - 1) : found[j].total_score < found[i].total_score]
find_signature_date_by_proximity(ocr) ==
    IF ~Truthy(ocr) THEN None
    ELSE Bind(dates_found(Nfkd(ocr)), LAMBDA found :
             IF found = <<>> THEN None ELSE HighestScored(found).normalized)

(***************************************************************************)
(* DocumentExtractor.identify_document_type, extract_document_metadata     *)
(***************************************************************************)
\* The patterns with the document type of each, in the order of the list.
DOCUMENT_PATTERNS ==
    <<\* r"INSTRUMENTO\s+PARTICULAR\s+DE\s+(?:PRIMEIRA|SEGUNDA|TERCEIRA|QUARTA|QUINTA)?\s*ALTERA[C-cedillaC][A-tildeA]O\s+(?:DO\s+)?CONTRATO\s+SOCIAL"
      [pat |-> Lit(<<"I", "N", "S", "T", "R", "U", "M", "E", "N", "T", "O">>) \o <<S1>>
               \o Lit(<<"P", "A", "R", "T", "I", "C", "U", "L", "A", "R">>) \o <<S1>> \o Lit(<<"D", "E">>)
               \o <<S1, Rep(<<Alt(<<<<"P", "R", "I", "M", "E", "I", "R", "A">>, <<"S", "E", "G", "U", "N", "D", "A">>, <<"T", "E", "R", "C", "E", "I", "R", "A">>, <<"Q", "U", "A", "R", "T", "A">>, <<"Q", "U", "I", "N", "T", "A">>>>)>>, 0, 1), S0>>
               \o Lit(<<"A", "L", "T", "E", "R", "A">>)
               \o <<Cls({"C_CED", "C"}, 1, 1), Cls({"A_TIL", "A"}, 1, 1)>> \o Lit(<<"O">>)
               \o <<S1, Rep(<<One("D"), One("O"), S1>>, 0, 1)>>
               \o Lit(<<"C", "O", "N", "T", "R", "A", "T", "O">>) \o <<S1>>
               \o Lit(<<"S", "O", "C", "I", "A", "L">>),
       doc_type |-> "CONTRATO_SOCIAL"],
      \* r"INSTRUMENTO\s+PARTICULAR\s+DE\s+ALTERA[C-cedillaC][A-tildeA]O"
      [pat |-> Lit(<<"I", "N", "S", "T", "R", "U", "M", "E", "N", "T", "O">>) \o <<S1>>
               \o Lit(<<"P", "A", "R", "T", "I", "C", "U", "L", "A", "R">>) \o <<S1>> \o Lit(<<"D", "E">>)
               \o <<S1>> \o Lit(<<"A", "L", "T", "E", "R", "A">>)
               \o <<Cls({"C_CED", "C"}, 1, 1), Cls({"A_TIL", "A"}, 1, 1)>> \o Lit(<<"O">>),
       doc_type |-> "CONTRATO_SOCIAL"],
      \* r"INSTRUMENTO\s+PARTICULAR"
      [pat |-> Lit(<<"I", "N", "S", "T", "R", "U", "M", "E", "N", "T", "O">>) \o <<S1>>
               \o Lit(<<"P", "A", "R", "T", "I", "C", "U", "L", "A", "R">>),
       doc_type |-> "CONTRATO_SOCIAL"],
      \* r"CONSTITUI[C-cedillaC][A-tildeA]O\s+(?:POR\s+)?(?:TRANSFORMA[C-cedillaC][A-tildeA]O)?"
      [pat |-> Lit(<<"C", "O", "N", "S", "T", "I", "T", "U", "I">>)
               \o <<Cls({"C_CED", "C"}, 1, 1), Cls({"A_TIL", "A"}, 1, 1)>> \o Lit(<<"O">>)
               \o <<S1, Rep(<<One("P"), One("O"), One("R"), S1>>, 0, 1), Rep(<<One("T"), One("R"), One("A"), One("N"), One("S"), One("F"), One("O"), One("R"), One("M"), One("A"), Cls({"C_CED", "C"}, 1, 1), Cls({"A_TIL", "A"}, 1, 1), One("O")>>, 0, 1)>>,
       doc_type |-> "CONTRATO_SOCIAL"],
      \* r"ALTERA[C-cedillaC][A-tildeA]O\s+CONTRATUAL"
      [pat |-> Lit(<<"A", "L", "T", "E", "R", "A">>)
               \o <<Cls({"C_CED", "C"}, 1, 1), Cls({"A_TIL", "A"}, 1, 1)>> \o Lit(<<"O">>) \o <<S1>>
               \o Lit(<<"C", "O", "N", "T", "R", "A", "T", "U", "A", "L">>),
       doc_type |-> "CONTRATO_SOCIAL"],
      \* r"ALTERA[C-cedillaC][A-tildeA]O\s+(?:DO\s+)?CONTRATO\s+SOCIAL"
      [pat |-> Lit(<<"A", "L", "T", "E", "R", "A">>)
               \o <<Cls({"C_CED", "C"}, 1, 1), Cls({"A_TIL", "A"}, 1, 1)>> \o Lit(<<"O">>)
               \o <<S1, Rep(<<One("D"), One("O"), S1>>, 0, 1)>>
               \o Lit(<<"C", "O", "N", "T", "R", "A", "T", "O">>) \o <<S1>>
               \o Lit(<<"S", "O", "C", "I", "A", "L">>),
       doc_type |-> "CONTRATO_SOCIAL"],
      \* r"ADITAMENTO\s+(?:AO\s+)?CONTRATO"
      [pat |-> Lit(<<"A", "D", "I", "T", "A", "M", "E", "N", "T", "O">>)
               \o <<S1, Rep(<<One("A"), One("O"), S1>>, 0, 1)>>
               \o Lit(<<"C", "O", "N", "T", "R", "A", "T", "O">>),
       doc_type |-> "ADITAMENTO"],
      \* r"TERMO\s+ADITIVO"
      [pat |-> Lit(<<"T", "E", "R", "M", "O">>) \o <<S1>> \o Lit(<<"A", "D", "I", "T", "I", "V", "O">>),
       doc_type |-> "ADITAMENTO"],
      \* r"ADITAMENTO"
      [pat |-> Lit(<<"A", "D", "I", "T", "A", "M", "E", "N", "T", "O">>),
       doc_type |-> "ADITAMENTO"],
      \* r"ATA\s+(?:DA\s+)?ASSEMBLEIA\s+GERAL\s+ORDIN[AA-acute]RIA\s+E\s+EXTRAORDIN[AA-acute]RIA"
      [pat |-> Lit(<<"A", "T", "A">>) \o <<S1, Rep(<<One("D"), One("A"), S1>>, 0, 1)>>
               \o Lit(<<"A", "S", "S", "E", "M", "B", "L", "E", "I", "A">>) \o <<S1>>
               \o Lit(<<"G", "E", "R", "A", "L">>) \o <<S1>> \o Lit(<<"O", "R", "D", "I", "N">>)
               \o <<Cls({"A", "A_ACU"}, 1, 1)>> \o Lit(<<"R", "I", "A">>) \o <<S1>> \o Lit(<<"E">>)
               \o <<S1>> \o Lit(<<"E", "X", "T", "R", "A", "O", "R", "D", "I", "N">>)
               \o <<Cls({"A", "A_ACU"}, 1, 1)>> \o Lit(<<"R", "I", "A">>),
       doc_type |-> "ATA_DE_ASSEMBLEIA"],
      \* r"ATA\s+(?:DA\s+)?ASSEMBLEIA\s+GERAL\s+EXTRAORDIN[AA-acute]RIA"
      [pat |-> Lit(<<"A", "T", "A">>) \o <<S1, Rep(<<One("D"), One("A"), S1>>, 0, 1)>>
               \o Lit(<<"A", "S", "S", "E", "M", "B", "L", "E", "I", "A">>) \o <<S1>>
               \o Lit(<<"G", "E", "R", "A", "L">>) \o <<S1>>
               \o Lit(<<"E", "X", "T", "R", "A", "O", "R", "D", "I", "N">>)
               \o <<Cls({"A", "A_ACU"}, 1, 1)>> \o Lit(<<"R", "I", "A">>),
       doc_type |-> "ATA_DE_ASSEMBLEIA"],
      \* r"ATA\s+(?:DA\s+)?ASSEMBLEIA\s+GERAL\s+ORDIN[AA-acute]RIA"
      [pat |-> Lit(<<"A", "T", "A">>) \o <<S1, Rep(<<One("D"), One("A"), S1>>, 0, 1)>>
               \o Lit(<<"A", "S", "S", "E", "M", "B", "L", "E", "I", "A">>) \o <<S1>>
               \o Lit(<<"G", "E", "R", "A", "L">>) \o <<S1>> \o Lit(<<"O", "R", "D", "I", "N">>)
               \o <<Cls({"A", "A_ACU"}, 1, 1)>> \o Lit(<<"R", "I", "A">>),
       doc_type |-> "ATA_DE_ASSEMBLEIA"],
      \* r"ATA\s+(?:DA\s+)?ASSEMBLEIA\s+GERAL"
      [pat |-> Lit(<<"A", "T", "A">>) \o <<S1, Rep(<<One("D"), One("A"), S1>>, 0, 1)>>
               \o Lit(<<"A", "S", "S", "E", "M", "B", "L", "E", "I", "A">>) \o <<S1>>
               \o Lit(<<"G", "E", "R", "A", "L">>),
       doc_type |-> "ATA_DE_ASSEMBLEIA"],
      \* r"ATA\s+(?:DE\s+)?ELEI[C-cedillaC][A-tildeA]O"
      [pat |-> Lit(<<"A", "T", "A">>) \o <<S1, Rep(<<One("D"), One("E"), S1>>, 0, 1)>>
               \o Lit(<<"E", "L", "E", "I">>) \o <<Cls({"C_CED", "C"}, 1, 1), Cls({"A_TIL", "A"}, 1, 1)>>
               \o Lit(<<"O">>),
       doc_type |-> "ATA_DE_ELEICAO"],
      \* r"ATA\s+(?:DE\s+)?REUNI[A-tildeA]O"
      [pat |-> Lit(<<"A", "T", "A">>) \o <<S1, Rep(<<One("D"), One("E"), S1>>, 0, 1)>>
               \o Lit(<<"R", "E", "U", "N", "I">>) \o <<Cls({"A_TIL", "A"}, 1, 1)>> \o Lit(<<"O">>),
       doc_type |-> "ATA_DE_ASSEMBLEIA"],
      \* r"ESTATUTO\s+SOCIAL(?:\s+CONSOLIDADO)?"
      [pat |-> Lit(<<"E", "S", "T", "A", "T", "U", "T", "O">>) \o <<S1>>
               \o Lit(<<"S", "O", "C", "I", "A", "L">>)
               \o <<Rep(<<S1, One("C"), One("O"), One("N"), One("S"), One("O"), One("L"), One("I"), One("D"), One("A"), One("D"), One("O")>>, 0, 1)>>,
       doc_type |-> "ESTATUTO_SOCIAL"],
      \* r"CONTRATO\s+SOCIAL"
      [pat |-> Lit(<<"C", "O", "N", "T", "R", "A", "T", "O">>) \o <<S1>>
               \o Lit(<<"S", "O", "C", "I", "A", "L">>),
       doc_type |-> "CONTRATO_SOCIAL"],
      \* r"(?:INSTRUMENTO\s+(?:P[UU-acute]BLICO\s+)?(?:DE\s+)?)?PROCURA[C-cedillaC][A-tildeA]O"
      [pat |-> <<Rep(<<One("I"), One("N"), One("S"), One("T"), One("R"), One("U"), One("M"), One("E"), One("N"), One("T"), One("O"), S1, Rep(<<One("P"), Cls({"U", "U_ACU"}, 1, 1), One("B"), One("L"), One("I"), One("C"), One("O"), S1>>, 0, 1), Rep(<<One("D"), One("E"), S1>>, 0, 1)>>, 0, 1)>>
               \o Lit(<<"P", "R", "O", "C", "U", "R", "A">>)
               \o <<Cls({"C_CED", "C"}, 1, 1), Cls({"A_TIL", "A"}, 1, 1)>> \o Lit(<<"O">>),
       doc_type |-> "PROCURACAO"],
      \* r"CERTID[A-tildeA]O"
      [pat |-> Lit(<<"C", "E", "R", "T", "I", "D">>) \o <<Cls({"A_TIL", "A"}, 1, 1)>> \o Lit(<<"O">>),
       doc_type |-> "CERTIDAO"],
      \* r"FICHA\s+CADASTRAL"
      [pat |-> Lit(<<"F", "I", "C", "H", "A">>) \o <<S1>>
               \o Lit(<<"C", "A", "D", "A", "S", "T", "R", "A", "L">>),
       doc_type |-> "FICHA_CADASTRAL"]>>
\* re.sub(r'\s+', ' ', s): every run of whitespace becomes one space.
SquashSpaces(s) ==
    LET last_of_run == SelectSeq([i \in 1..Len(s) |-> <<s[i], i = Len(s) \/ s[i + 1] \notin ReSpace>>],
                                 LAMBDA c : c[1] \notin ReSpace \/ c[2])
    IN [n \in 1..Len(last_of_run) |->
           IF last_of_run[n][1] \in ReSpace THEN " " ELSE last_of_run[n][1]]
\* The type of the first pattern from k on, in the order of the list, that the text holds.
FirstDocumentType(text_normalized, k) ==
    Last(<<"DOCUMENTO_GENERICO">>
         \o FirstNonEmpty([j \in k..Len(DOCUMENT_PATTERNS) |->
                               IF ReSearch(DOCUMENT_PATTERNS[j].pat, text_normalized) # <<>>
                               THEN <<DOCUMENT_PATTERNS[j].doc_type>> ELSE <<>>]))
identify_document_type(text) ==
    IF ~Truthy(text) THEN "DOCUMENTO_GENERICO"
    ELSE FirstDocumentType(SquashSpaces(Upper(text)), 1)

\* The patterns of _extract_document_number; group 1 is the last item.
number_patterns ==
    <<\* r"NIRE\s*:?\s*(\d+)"
      Lit(<<"N", "I", "R", "E">>) \o <<S0, Opt(":"), S0, D(1, Inf)>>,
      \* r"Protocolo\s*:?\s*(\d+)"
      Lit(<<"P", "r", "o", "t", "o", "c", "o", "l", "o">>) \o <<S0, Opt(":"), S0, D(1, Inf)>>,
      \* r"Registro\s*:?\s*(\d+)"
      Lit(<<"R", "e", "g", "i", "s", "t", "r", "o">>) \o <<S0, Opt(":"), S0, D(1, Inf)>>>>
RECURSIVE FirstNumber(_, _)
FirstNumber(text, k) ==
    IF k > Len(number_patterns) THEN None
    ELSE Bind(ReSearch(IgnoreCase(number_patterns[k]), text), LAMBDA m :
             IF m # <<>> THEN Group(text, m, Len(number_patterns[k]), Len(number_patterns[k]))
             ELSE FirstNumber(text, k + 1))
_extract_document_number(text) == IF ~Truthy(text) THEN None ELSE FirstNumber(text, 1)

\* The patterns of _extract_registration_date; group 1 is the last five items.
registration_patterns ==
    <<\* r"registrado em (\d{1,2}[\/\-]\d{1,2}[\/\-]\d{4})"
      Lit(<<"r", "e", "g", "i", "s", "t", "r", "a", "d", "o", " ", "e", "m", " ">>)
      \o <<D(1, 2), Cls({"/", "-"}, 1, 1), D(1, 2), Cls({"/", "-"}, 1, 1), D(4, 4)>>,
      \* r"arquivado em (\d{1,2}[\/\-]\d{1,2}[\/\-]\d{4})"
      Lit(<<"a", "r", "q", "u", "i", "v", "a", "d", "o", " ", "e", "m", " ">>)
      \o <<D(1, 2), Cls({"/", "-"}, 1, 1), D(1, 2), Cls({"/", "-"}, 1, 1), D(4, 4)>>,
      \* r"protocolado em (\d{1,2}[\/\-]\d{1,2}[\/\-]\d{4})"
      Lit(<<"p", "r", "o", "t", "o", "c", "o", "l", "a", "d", "o", " ", "e", "m", " ">>)
      \o <<D(1, 2), Cls({"/", "-"}, 1, 1), D(1, 2), Cls({"/", "-"}, 1, 1), D(4, 4)>>,
      \* r"NIRE.*(\d{1,2}[\/\-]\d{1,2}[\/\-]\d{4})"
      Lit(<<"N", "I", "R", "E">>)
      \o <<Neg({"\n"}, 0, Inf), D(1, 2), Cls({"/", "-"}, 1, 1), D(1, 2), Cls({"/", "-"}, 1, 1), D(4, 4)>>>>
\* The first pattern that matches decides: its date is normalized, whatever comes of it.
RECURSIVE FirstRegistration(_, _)
FirstRegistration(text, k) ==
    IF k > Len(registration_patterns) THEN None
    ELSE Bind(ReSearch(IgnoreCase(registration_patterns[k]), text), LAMBDA m :
             IF m # <<>>
             THEN normalize_any(Group(text, m, Len(registration_patterns[k]) - 4,
                                      Len(registration_patterns[k])))
             ELSE FirstRegistration(text, k + 1))
_extract_registration_date(text) == IF ~Truthy(text) THEN None ELSE FirstRegistration(text, 1)

\* extract_document_metadata with a date_extractor, as process_pdfs calls it.
extract_document_metadata(pdf_text, index, uri) ==
    Bind(<<extract_signature_date_level_0(pdf_text), _extract_registration_date(pdf_text)>>,
         LAMBDA dates :
             [document_index |-> index,
              file_name |-> FileName(uri),
              document_type |-> identify_document_type(pdf_text),
              signature_date |-> dates[1],
              registration_date |-> dates[2],
              document_number |-> _extract_document_number(pdf_text),
              priority_score |-> _calculate_document_priority(dates[1], dates[2])])

(***************************************************************************)
(* Formatters.normalize_date                                               *)
(***************************************************************************)
\* r"\b(\d{1,2})[/-](\d{1,2})[/-](\d{4})\b": groups are items 2, 4 and 6.
NUMERIC_DATE_PATTERN ==
    <<WordB, D(1, 2), Cls({"/", "-"}, 1, 1), D(1, 2), Cls({"/", "-"}, 1, 1), D(4, 4), WordB>>
\* .encode("ascii", "ignore").decode(): the characters that are not ASCII are dropped.
NonAscii ==
    {"c_ced", "C_CED", "a_til", "A_TIL", "a_acu", "A_ACU", "i_acu", "I_ACU", "e_cir", "E_CIR",
     "e_acu", "E_ACU", "o_acu", "O_ACU", "~ced", "~til", "~acu", "~cir"}
AsciiIgnore(text) == SelectSeq(text, LAMBDA c : c \notin NonAscii)
\* f"{n:02d}"
Format02d(n) == IF n < 100 THEN TwoDigits(n) ELSE <<DigitSeq[(n \div 100) + 1]>> \o TwoDigits(n % 100)

NumericDateOf(text) ==
    LET m == ReSearch(NUMERIC_DATE_PATTERN, text)
    IN IF m = <<>> THEN None
       ELSE Group(text, m, 6, 6) \o <<"-">> \o Format02d(ToInt(Group(text, m, 4, 4)))
            \o <<"-">> \o Format02d(ToInt(Group(text, m, 2, 2)))
ExtendedDateOf(text) ==
    LET m2 == ReSearch(IgnoreCase(MONTH_DATE_PATTERN), text)
        mes == AsciiIgnore(Nfkd(Lower(Group(text, m2, 6, 6))))
        mm == MonthNumber(mes)
    IN IF m2 # <<>> /\ mm # None
       THEN Group(text, m2, 11, 11) \o <<"-">> \o mm \o <<"-">> \o Format02d(ToInt(Group(text, m2, 1, 1)))
       ELSE None

normalize_date(raw) ==
    IF ~Truthy(raw) THEN None
    ELSE LET text == Strip(raw)
         IN IF IsoShaped(text) THEN text
            ELSE IF NumericDateOf(text) # None THEN NumericDateOf(text)
            ELSE ExtendedDateOf(text)

\* ---- the date functions on their own ------------------------------------
\* The month names as Portuguese writes them.
MonthWords ==
    <<<<"j", "a", "n", "e", "i", "r", "o">>,
      <<"f", "e", "v", "e", "r", "e", "i", "r", "o">>,
      <<"m", "a", "r", "c_ced", "o">>,
      <<"a", "b", "r", "i", "l">>,
      <<"m", "a", "i", "o">>,
      <<"j", "u", "n", "h", "o">>,
      <<"j", "u", "l", "h", "o">>,
      <<"a", "g", "o", "s", "t", "o">>,
      <<"s", "e", "t", "e", "m", "b", "r", "o">>,
      <<"o", "u", "t", "u", "b", "r", "o">>,
      <<"n", "o", "v", "e", "m", "b", "r", "o">>,
      <<"d", "e", "z", "e", "m", "b", "r", "o">>>>
DateChoices ==
    {<<10, m, 2023>> : m \in 1..12}
    \cup {<<5, 5, 2023>>, <<29, 2, 2024>>, <<1, 1, 1999>>, <<31, 12, 2023>>,
          <<29, 2, 2023>>, <<31, 4, 2023>>, <<32, 1, 2023>>}
DateForms ==
    {"slash", "slash_padded", "hyphen", "hyphen_padded", "iso",
     "extended", "extended_capital", "extended_unaccented"}
CueChoices ==
    {<<>>,
     <<"a", "s", "s", "i", "n", "a", "d", "o", " ", "e", "m", " ">>,
     <<"f", "i", "r", "m", "a", "d", "o", " ", "e", "m", " ">>,
     <<"F", "i", "r", "m", "a", "d", "o", " ", " ", "e", "m", " ">>,
     <<"d", "a", "t", "a", "d", "o", " ", "d", "e", " ">>}
\* str(n) for 0 <= n <= 99.
Dec(n) == IF n < 10 THEN <<DigitSeq[n + 1]>> ELSE TwoDigits(n)
Capitalized(w) == <<UpperChar(Head(w))>> \o Tail(w)
Unaccented(w) == [i \in 1..Len(w) |-> IF w[i] = "c_ced" THEN "c" ELSE w[i]]
ExtendedText(d, word, y) ==
    Dec(d) \o <<" ", "d", "e", " ">> \o word \o <<" ", "d", "e", " ">> \o FourDigits(y)
\* The date d/m/y written in one of the forms.
DateText(d, m, y, form) ==
    CASE form = "slash" -> Dec(d) \o <<"/">> \o Dec(m) \o <<"/">> \o FourDigits(y)
      [] form = "slash_padded" -> TwoDigits(d) \o <<"/">> \o TwoDigits(m) \o <<"/">> \o FourDigits(y)
      [] form = "hyphen" -> Dec(d) \o <<"-">> \o Dec(m) \o <<"-">> \o FourDigits(y)
      [] form = "hyphen_padded" -> TwoDigits(d) \o <<"-">> \o TwoDigits(m) \o <<"-">> \o FourDigits(y)
      [] form = "iso" -> Iso(y, m, d)
      [] form = "extended" -> ExtendedText(d, MonthWords[m], y)
      [] form = "extended_capital" -> ExtendedText(d, Capitalized(MonthWords[m]), y)
      [] OTHER -> ExtendedText(d, Unaccented(MonthWords[m]), y)

InitDate ==
    /\ pc = "date"
    /\ \E cue \in CueChoices, date \in DateChoices, form \in DateForms :
          /\ date_input = [cue |-> cue, d |-> date[1], m |-> date[2], y |-> date[3], form |-> form]
          /\ ocr_text = cue \o DateText(date[1], date[2], date[3], form)
    /\ date_norm = None /\ date_again = None /\ sig_date = None
    /\ fmt_norm = None /\ fmt_again = None /\ date_done = {}
    /\ IdleLoop /\ IdleBatch /\ IdleDoc /\ IdleCnpj /\ IdleReps /\ IdleProc /\ IdleGemini /\ IdleMore

NormalizeAny ==
    /\ "normalize_any" \notin date_done
    /\ date_norm' = normalize_any(ocr_text)
    /\ date_done' = date_done \cup {"normalize_any"}
    /\ UNCHANGED <<pc, date_input, ocr_text, date_again, sig_date, fmt_norm, fmt_again, outsideDate>>
\* normalize_any on a date it returned.
NormalizeAnyAgain ==
    /\ "normalize_any" \in date_done /\ "normalize_any_again" \notin date_done
    /\ date_norm # None
    /\ date_again' = normalize_any(date_norm)
    /\ date_done' = date_done \cup {"normalize_any_again"}
    /\ UNCHANGED <<pc, date_input, ocr_text, date_norm, sig_date, fmt_norm, fmt_again, outsideDate>>
NormalizeDate ==
    /\ "normalize_date" \notin date_done
    /\ fmt_norm' = normalize_date(ocr_text)
    /\ date_done' = date_done \cup {"normalize_date"}
    /\ UNCHANGED <<pc, date_input, ocr_text, date_norm, date_again, sig_date, fmt_again, outsideDate>>
\* normalize_date on a date it returned.
NormalizeDateAgain ==
    /\ "normalize_date" \in date_done /\ "normalize_date_again" \notin date_done
    /\ fmt_norm # None
    /\ fmt_again' = normalize_date(fmt_norm)
    /\ date_done' = date_done \cup {"normalize_date_again"}
    /\ UNCHANGED <<pc, date_input, ocr_text, date_norm, date_again, sig_date, fmt_norm, outsideDate>>
ExtractSignatureDateLevel0 ==
    /\ "level_0" \notin date_done
    /\ sig_date' = extract_signature_date_level_0(ocr_text)
    /\ date_done' = date_done \cup {"level_0"}
    /\ UNCHANGED <<pc, date_input, ocr_text, date_norm, date_again, fmt_norm, fmt_again, outsideDate>>

NextDate ==
    \/ NormalizeAny
    \/ NormalizeAnyAgain
    \/ NormalizeDate
    \/ NormalizeDateAgain
    \/ ExtractSignatureDateLevel0
SpecDate == InitDate /\ [][NextDate]_vars

\* The input is a real calendar date written after the cue phrase cue in one of forms.
DateWritten(cues, forms) ==
    /\ date_input.cue \in cues
    /\ date_input.form \in forms
    /\ RealDate(date_input.y, date_input.m, date_input.d)
IsoOfInput == Iso(date_input.y, date_input.m, date_input.d)
SignatureCues ==
    {<<"a", "s", "s", "i", "n", "a", "d", "o", " ", "e", "m", " ">>,
     <<"f", "i", "r", "m", "a", "d", "o", " ", "e", "m", " ">>}

\* C2: for an OCR text made of the cue phrase "assinado em" (or "firmado em") followed
\* by a valid extended Portuguese date "D de MES de YYYY", MES being any month name of
\* the month table, the accented "marco" with cedilla included, Level-0 signature-date
\* extraction returns that date in ISO form.
C2_Level0ReadsExtendedDate ==
    ("level_0" \in date_done /\ DateWritten(SignatureCues, {"extended", "extended_unaccented"})) =>
        sig_date = IsoOfInput

\* C10: for every real calendar date written in numeric form with slashes, in numeric
\* form with hyphens, or in extended Portuguese form, date normalization (normalize_any
\* of DateExtractor or normalize_date of Formatters) returns the ISO string of that
\* calendar date, and normalizing that ISO string again returns it unchanged.
C10_NormalizationRoundTrips ==
    (/\ {"normalize_any", "normalize_date"} \subseteq date_done
     /\ DateWritten({<<>>}, {"slash", "slash_padded", "hyphen", "hyphen_padded", "extended"})) =>
        \/ /\ date_norm = IsoOfInput
           /\ "normalize_any_again" \in date_done => date_again = date_norm
        \/ /\ fmt_norm = IsoOfInput
           /\ "normalize_date_again" \in date_done => fmt_again = fmt_norm

\* ---- the signature date of one document -----------------------------------
\* The text of a document: two dated phrases, something between them, and a signer.
LawWords ==
    <<<<"L", "e", "i">>,
      <<"D", "e", "c", "r", "e", "t", "o">>,
      <<"P", "o", "r", "t", "a", "r", "i", "a">>,
      <<"R", "e", "s", "o", "l", "u", "c_ced", "a_til", "o">>,
      <<"M", "e", "d", "i", "d", "a", " ", "P", "r", "o", "v", "i", "s", "o_acu", "r", "i", "a">>>>
SignatureWord == <<"A", "s", "s", "i", "n", "a", "t", "u", "r", "a">>
CueWord == <<"a", "s", "s", "i", "n", "a", "d", "o", " ", "e", "m">>
PlainWord == <<"D", "a", "t", "a">>
PhrasePairs ==
    {<<LawWords[k], SignatureWord>> : k \in 1..Len(LawWords)}
    \cup {<<SignatureWord, LawWords[k]>> : k \in 1..Len(LawWords)}
    \cup {<<SignatureWord, SignatureWord>>, <<PlainWord, PlainWord>>, <<CueWord, SignatureWord>>,
          <<PlainWord, CueWord>>, <<SignatureWord, PlainWord>>, <<PlainWord, SignatureWord>>}
ProxForms == {"slash_padded", "extended"}
FirstDate == <<10, 4, 2020>>
SecondDate == <<15, 5, 2023>>
\* What lies between the phrases: a full stop, or a line longer than the context of
\* _is_date_in_law_context.
GapChoices == {"near", "past_law_context"}
Dashes(n) == [i \in 1..n |-> "-"]
GapText(gap) ==
    CASE gap = "near" -> <<".", " ">>
      [] OTHER -> <<".", " ">> \o Dashes(LawContextSize) \o <<" ">>
SignersText == <<".", " ", "A", "n", "a", " ", "L", "i", "m", "a">>
Phrase(word, date, form) == word \o <<" ">> \o DateText(date[1], date[2], date[3], form)
DocumentText(input) ==
    Phrase(input.first.word, FirstDate, input.first.form) \o GapText(input.gap)
    \o Phrase(input.second.word, SecondDate, input.second.form) \o SignersText
ProxUri == <<"s", "3", ":", "/", "/", "b", "/", "d", "/", "c">>

InitProx ==
    /\ pc = "sig"
    /\ \E words \in PhrasePairs, form1 \in ProxForms, form2 \in ProxForms, gap \in GapChoices :
          prox_input = [first |-> [word |-> words[1], form |-> form1],
                        second |-> [word |-> words[2], form |-> form2], gap |-> gap]
    /\ prox_text = DocumentText(prox_input)
    /\ prox_level0 = None /\ prox_found = <<>> /\ prox_date = None /\ prox_metadata = <<>>
    /\ IdleLoop /\ IdleBatch /\ IdleDoc /\ IdleDate /\ IdleCnpj /\ IdleReps /\ IdleProc /\ IdleGemini
    /\ IdleMark /\ IdleExt

ExtractLevel0 ==
    /\ pc = "sig"
    /\ prox_level0' = extract_signature_date_level_0(prox_text)
    /\ pc' = "sig_level0"
    /\ UNCHANGED <<prox_input, prox_text, prox_found, prox_date, prox_metadata, outsideProx>>
\* find_signature_date_by_proximity; prox_found keeps its list of candidates.
FindSignatureDateByProximity ==
    /\ pc = "sig_level0"
    /\ prox_found' = (IF Truthy(prox_text) THEN dates_found(Nfkd(prox_text)) ELSE <<>>)
    /\ prox_date' = find_signature_date_by_proximity(prox_text)
    /\ pc' = "sig_scored"
    /\ UNCHANGED <<prox_input, prox_text, prox_level0, prox_metadata, outsideProx>>
\* process_pdfs: metadata = extract_document_metadata(pdf_text, i, uri, date_extractor).
ExtractDocumentMetadata ==
    /\ pc = "sig_scored"
    /\ prox_metadata' = extract_document_metadata(prox_text, 1, ProxUri)
    /\ pc' = "sig_recorded"
    /\ UNCHANGED <<prox_input, prox_text, prox_level0, prox_found, prox_date, outsideProx>>

NextProx == ExtractLevel0 \/ FindSignatureDateByProximity \/ ExtractDocumentMetadata
SpecProx == InitProx /\ [][NextProx]_vars

IsLawWord(word) == \E k \in 1..Len(LawWords) : LawWords[k] = word
FirstIso == Iso(FirstDate[3], FirstDate[2], FirstDate[1])
SecondIso == Iso(SecondDate[3], SecondDate[2], SecondDate[1])
ProximityDone == pc \in {"sig_scored", "sig_recorded"}
\* The document has no cue phrase of Level 0.
NoCue == prox_input.first.word # CueWord /\ prox_input.second.word # CueWord
\* The first date follows a legal-citation keyword and the second one the word
\* "Assinatura", more than 100 characters after the keyword.
LawThenSignature ==
    /\ IsLawWord(prox_input.first.word) /\ prox_input.second.word = SignatureWord
    /\ prox_input.gap = "past_law_context"
\* The first date follows the word "Assinatura" and the second one a legal-citation
\* keyword.
SignatureThenLaw == prox_input.first.word = SignatureWord /\ IsLawWord(prox_input.second.word)

\* C11: in a text with two different dates and no Level-0 cue phrase, one date
\* preceded within 100 characters by a legal-citation keyword (lei, decreto,
\* portaria, resolucao, medida provisoria, as the documents spell them) and the
\* other within a signature-section keyword window, find_signature_date_by_proximity
\* returns the date of the signature section, for each of the five keywords and in
\* either order of the two dates.
C11_SignatureDateOutranksLawDate ==
    (ProximityDone /\ NoCue) =>
        /\ LawThenSignature => prox_date = SecondIso
        /\ SignatureThenLaw => prox_date = FirstIso

\* The positions (0-based) of the two dates in the text.
FirstDatePosition == Len(prox_input.first.word) + 1
\* Both dates are candidates with the same score.
TiedCandidates ==
    /\ Len(prox_found) = 2
    /\ prox_found[1].total_score = prox_found[2].total_score

\* C19: when several surviving candidates of the proximity scoring share the highest
\* score, find_signature_date_by_proximity returns the one that occurs first in the
\* text, whether the tied candidates are numeric or extended dates.
C19_TieKeepsFirstInText ==
    (ProximityDone /\ TiedCandidates) => prox_date = FirstIso

\* C20: the signature date recorded for a document is the Level-0 result when Level 0
\* finds a date, and otherwise the result of the proximity scoring: a document with
\* no cue phrase but with a scorable date gets that date.
C20_TwoTieredSignatureDate ==
    pc = "sig_recorded" =>
        prox_metadata.signature_date = (IF prox_level0 # None THEN prox_level0 ELSE prox_date)

(***************************************************************************)
(* CNPJExtractor                                                           *)
(***************************************************************************)
CNPJ_LENGTH == 14
FIRST_BLOCK_END == 2
SECOND_BLOCK_END == 5
THIRD_BLOCK_END == 8
FOURTH_BLOCK_END == 12
\* \d{2}\.?\d{3}\.?\d{3}\/?\d{4}-?\d{2}
CnpjItems ==
    <<D(2, 2), Opt("."), D(3, 3), Opt("."), D(3, 3), Opt("/"), D(4, 4), Opt("-"), D(2, 2)>>
\* [:\s-]*
LabelGap == Cls({":", "-"} \cup ReSpace, 0, Inf)
\* self.cnpj_patterns, in the order of the list; group 1 of each is items a..b.
cnpj_patterns ==
    <<[pat |-> <<WordB>> \o CnpjItems \o <<WordB>>, a |-> 2, b |-> 10],
      [pat |-> <<WordB, D(CNPJ_LENGTH, CNPJ_LENGTH), WordB>>, a |-> 2, b |-> 2],
      WithGroup(Lit(<<"C", "N", "P", "J">>) \o <<LabelGap>>, CnpjItems),
      WithGroup(Lit(<<"S", "E", "D", "E">>) \o <<LabelGap>>, CnpjItems)>>

\* re.sub(r'\D', '', s)
OnlyDigits(s) == DropChars(s, Neg(Digits, 1, 1))
\* A variant of the length test that lets longer digit strings through.
CnpjLengthAtLeast(digits) == Len(digits) >= CNPJ_LENGTH
\* The length test of normalize and of extract_from_ocr.
CnpjLengthOk(digits) == Len(digits) = CNPJ_LENGTH
\* digits[a:b] of Python.
Slice(s, a, b) == SubSeq(s, a + 1, IF b < Len(s) THEN b ELSE Len(s))

normalize(cnpj) ==
    IF ~Truthy(cnpj) THEN <<>>
    ELSE LET digits == OnlyDigits(cnpj)
         IN IF ~CnpjLengthOk(digits) THEN <<>>
            ELSE Slice(digits, 0, FIRST_BLOCK_END) \o <<".">>
                 \o Slice(digits, FIRST_BLOCK_END, SECOND_BLOCK_END) \o <<".">>
                 \o Slice(digits, SECOND_BLOCK_END, THIRD_BLOCK_END) \o <<"/">>
                 \o Slice(digits, THIRD_BLOCK_END, FOURTH_BLOCK_END) \o <<"-">>
                 \o SliceFrom(digits, FOURTH_BLOCK_END)

\* The first match of one pattern whose group holds 14 digits, normalized.
RECURSIVE FirstCnpjOfMatches(_, _, _)
FirstCnpjOfMatches(text, p, matches) ==
    IF matches = <<>> THEN None
    ELSE LET cnpj_digits == OnlyDigits(Group(text, Head(matches), p.a, p.b))
         IN IF CnpjLengthOk(cnpj_digits) THEN normalize(cnpj_digits)
            ELSE FirstCnpjOfMatches(text, p, Tail(matches))
RECURSIVE FirstCnpjOfPatterns(_, _)
FirstCnpjOfPatterns(text, k) ==
    IF k > Len(cnpj_patterns) THEN <<>>
    ELSE LET p == cnpj_patterns[k]
             found == FirstCnpjOfMatches(text, p, FindIter(IgnoreCase(p.pat), text))
         IN IF found # None THEN found ELSE FirstCnpjOfPatterns(text, k + 1)
extract_from_ocr(text) == IF ~Truthy(text) THEN <<>> ELSE FirstCnpjOfPatterns(text, 1)

\* ---- the CNPJ functions on their own ------------------------------------
CnpjDigitChoices ==
    {<<"1", "2", "3", "4", "5", "6", "7", "8", "0", "0", "0", "1", "9", "9">>,
     <<"0", "0", "0", "0", "0", "0", "0", "0", "0", "0", "0", "1", "9", "1">>}
CnpjLengthChoices == {CNPJ_LENGTH - 1, CNPJ_LENGTH, CNPJ_LENGTH + 1}
CnpjLayouts == {"bare", "formatted", "dots", "slash_dash", "spaced"}
CnpjPrefixes ==
    {<<>>, <<"C", "N", "P", "J", ":", " ">>, <<"s", "e", "d", "e", " ", "-", " ">>, <<"x">>, <<"L", "e", "i", " ", "1", "/">>}
CnpjSuffixes == {<<>>, <<" ", "S", "/", "A">>, <<"7">>}
\* The first len digits of ds (ds and one more digit when len exceeds it).
DigitsOfLength(ds, len) == IF len <= Len(ds) THEN SubSeq(ds, 1, len) ELSE ds \o <<"5">>
\* The digits laid out with the separators of the layout after the blocks of a CNPJ.
CnpjWritten(ds, layout) ==
    LET sep(c, plain) ==
            CASE layout = "formatted" -> <<c>>
              [] layout = "dots" -> IF c = "." THEN <<c>> ELSE <<>>
              [] layout = "slash_dash" -> IF c = "." THEN <<>> ELSE <<c>>
              [] layout = "spaced" -> <<" ">>
              [] OTHER -> plain
    IN Slice(ds, 0, 2) \o sep(".", <<>>) \o Slice(ds, 2, 5) \o sep(".", <<>>)
       \o Slice(ds, 5, 8) \o sep("/", <<>>) \o Slice(ds, 8, 12) \o sep("-", <<>>)
       \o SliceFrom(ds, 12)
CnpjLabels == {<<"C", "N", "P", "J", ":", " ">>, <<"S", "E", "D", "E", ":", " ">>}
\* A text with a bare number and a labelled one, in the given order.
CnpjPairText(label, bare, labelled, bare_first) ==
    IF bare_first THEN bare \o <<" ">> \o label \o labelled
    ELSE label \o labelled \o <<" ">> \o bare
CnpjPairTexts ==
    {CnpjPairText(label, bare, labelled, bare_first) :
        label \in CnpjLabels, bare \in CnpjDigitChoices,
        labelled \in CnpjDigitChoices, bare_first \in BOOLEAN}
CnpjTexts ==
    {<<>>} \cup CnpjPairTexts \cup
    {pre \o CnpjWritten(DigitsOfLength(ds, len), layout) \o suf :
        pre \in CnpjPrefixes, ds \in CnpjDigitChoices, len \in CnpjLengthChoices,
        layout \in CnpjLayouts, suf \in CnpjSuffixes}

InitCnpj ==
    /\ pc = "cnpj"
    /\ cnpj_text \in CnpjTexts
    /\ cnpj_extracted = None /\ cnpj_arg = None
    /\ cnpj_norm = None /\ cnpj_again = None
    /\ IdleLoop /\ IdleBatch /\ IdleDoc /\ IdleDate /\ IdleReps /\ IdleProc /\ IdleGemini /\ IdleMore

ExtractFromOcr ==
    /\ pc = "cnpj"
    /\ cnpj_extracted' = extract_from_ocr(cnpj_text)
    /\ pc' = "cnpj_extracted"
    /\ UNCHANGED <<cnpj_text, cnpj_arg, cnpj_norm, cnpj_again, outsideCnpj>>
\* normalize on the result of extract_from_ocr.
NormalizeExtracted ==
    /\ pc = "cnpj_extracted"
    /\ cnpj_arg' = cnpj_extracted
    /\ cnpj_norm' = normalize(cnpj_extracted)
    /\ pc' = "cnpj_normalized"
    /\ UNCHANGED <<cnpj_text, cnpj_extracted, cnpj_again, outsideCnpj>>
\* normalize on a string as it comes.
NormalizeString ==
    /\ pc = "cnpj"
    /\ cnpj_arg' = cnpj_text
    /\ cnpj_norm' = normalize(cnpj_text)
    /\ pc' = "cnpj_normalized"
    /\ UNCHANGED <<cnpj_text, cnpj_extracted, cnpj_again, outsideCnpj>>
\* normalize on its own result.
NormalizeAgain ==
    /\ pc = "cnpj_normalized"
    /\ cnpj_again' = normalize(cnpj_norm)
    /\ pc' = "cnpj_renormalized"
    /\ UNCHANGED <<cnpj_text, cnpj_extracted, cnpj_arg, cnpj_norm, outsideCnpj>>

NextCnpj ==
    \/ ExtractFromOcr
    \/ NormalizeExtracted
    \/ NormalizeString
    \/ NormalizeAgain
SpecCnpj == InitCnpj /\ [][NextCnpj]_vars

\* The digits of a text, in order.
DigitsIn(text) == SelectSeq(text, LAMBDA c : c \in Digits)
\* t is 14 digits laid out as DD.DDD.DDD/DDDD-DD.
IsFormattedCnpj(t) ==
    /\ Len(t) = 18
    /\ t[3] = "." /\ t[7] = "." /\ t[11] = "/" /\ t[16] = "-"
    /\ \A i \in (1..18) \ {3, 7, 11, 16} : t[i] \in Digits

\* C9: normalize is idempotent, on the result of extract_from_ocr and on any string x:
\* normalize(normalize(x)) = normalize(x); a non-empty result is the 14 digits of x
\* laid out as DD.DDD.DDD/DDDD-DD, and the result is empty when x does not hold
\* exactly 14 digits.
C9_NormalizeIdempotent ==
    /\ pc \in {"cnpj_normalized", "cnpj_renormalized"} =>
          IF Len(DigitsIn(cnpj_arg)) = 14
          THEN IsFormattedCnpj(cnpj_norm) /\ DigitsIn(cnpj_norm) = DigitsIn(cnpj_arg)
          ELSE cnpj_norm = <<>>
    /\ pc = "cnpj_renormalized" => cnpj_again = cnpj_norm
\* "CNPJ: 12.345.678/0001-99 S/A" went through extract_from_ocr and twice through
\* normalize.
C9_Witness ==
    /\ pc = "cnpj_renormalized"
    /\ cnpj_text = <<"C", "N", "P", "J", ":", " ", "1", "2", ".", "3", "4", "5", ".", "6", "7", "8", "/", "0", "0", "0", "1", "-", "9", "9", " ", "S", "/", "A">>
    /\ cnpj_extracted = <<"1", "2", ".", "3", "4", "5", ".", "6", "7", "8", "/", "0", "0", "0", "1", "-", "9", "9">>
    /\ cnpj_arg = cnpj_extracted
    /\ cnpj_again = <<"1", "2", ".", "3", "4", "5", ".", "6", "7", "8", "/", "0", "0", "0", "1", "-", "9", "9">>

(***************************************************************************)
(* RepresentativeExtractor                                                 *)
(* A representative is a dict: a function from the field names it has to   *)
(* texts.                                                                  *)
(***************************************************************************)
DATA_NOT_AVAILABLE ==
    <<"D", "a", "d", "o", " ", "n", "a_til", "o", " ", "d", "i", "s", "p", "o", "n", "i_acu", "v", "e", "l", " ", "n", "o", " ", "d", "o", "c", "u", "m", "e", "n", "t", "o">>
PROCURADOR_KEYWORDS ==
    <<<<"P", "R", "O", "C", "U", "R", "A", "D", "O", "R">>,
      <<"O", "U", "T", "O", "R", "G", "A", "D", "O">>,
      <<"M", "A", "N", "D", "A", "T", "A_ACU", "R", "I", "O">>,
      <<"M", "A", "N", "D", "A", "T", "A", "R", "I", "O">>>>
field_mappings ==
    <<<<<<"N", "o", "m", "e", ":">>,
        "nome">>,
      <<<<"C", "P", "F", ":">>,
        "cpf">>,
      <<<<"C", "a", "r", "g", "o", ":">>,
        "cargo">>,
      <<<<"E", "n", "d", "e", "r", "e", "c_ced", "o", " ", "d", "a", " ", "r", "e", "s", "i", "d", "e_cir", "n", "c", "i", "a", ":">>,
        "endereco_residencia">>,
      <<<<"T", "i", "p", "o", " ", "d", "e", " ", "a", "s", "s", "i", "n", "a", "t", "u", "r", "a", ":">>,
        "tipo_assinatura">>,
      <<<<"O", "r", "i", "g", "e", "m", " ", "d", "a", " ", "a", "s", "s", "i", "n", "a", "t", "u", "r", "a", ":">>,
        "origem_assinatura">>,
      <<<<"R", "e", "g", "r", "a", "s", " ", "d", "e", " ", "r", "e", "p", "r", "e", "s", "e", "n", "t", "a", "c_ced", "a_til", "o", ":">>,
        "regras_representacao">>,
      <<<<"O", "r", "i", "g", "e", "m", " ", "d", "a", "s", " ", "r", "e", "g", "r", "a", "s", " ", "d", "e", " ", "r", "e", "p", "r", "e", "s", "e", "n", "t", "a", "c_ced", "a_til", "o", ":">>,
        "origem_regras_representacao">>,
      <<<<"D", "a", "t", "a", " ", "d", "e", " ", "v", "a", "l", "i", "d", "a", "d", "e", " ", "d", "a", "s", " ", "r", "e", "g", "r", "a", "s", ":">>,
        "data_validade_regras">>,
      <<<<"O", "r", "i", "g", "e", "m", " ", "d", "a", " ", "d", "a", "t", "a", " ", "d", "e", " ", "v", "a", "l", "i", "d", "a", "d", "e", ":">>,
        "origem_data_validade">>>>
\* The fields validate_and_filter and _fill_empty_fields fill, in the order of the lists.
REP_FIELDS ==
    <<"nome", "cpf", "cargo", "endereco_residencia", "tipo_assinatura", "origem_assinatura",
      "regras_representacao", "origem_regras_representacao", "data_validade_regras",
      "origem_data_validade">>

\* rep.get(field, default) and rep[field] = value
Get(rep, field, default) == IF field \in DOMAIN rep THEN rep[field] ELSE default
Put(rep, field, value) ==
    [f \in DOMAIN rep \cup {field} |-> IF f = field THEN value ELSE rep[f]]
\* The dict {}.
EmptyDict == [f \in {} |-> <<>>]

\* s.replace(sub, ""), for a non-empty sub.
RECURSIVE RemoveAll(_, _)
RemoveAll(s, sub) ==
    IF \A i \in 1..Len(s) : ~OccursAt(s, sub, i) THEN s
    ELSE SubSeq(s, 1, (CHOOSE i \in 1..Len(s) :
                          OccursAt(s, sub, i) /\ \A h \in 1..(i - 1) : ~OccursAt(s, sub, h)) - 1)
         \o RemoveAll(SubSeq(s, (CHOOSE i \in 1..Len(s) :
                                    OccursAt(s, sub, i) /\ \A h \in 1..(i - 1) : ~OccursAt(s, sub, h))
                                 + Len(sub), Len(s)), sub)

\* The index after the first line that opens the section (indices of lines are
\* 0-based, as in the code); NoIndex stands for the None of no such line.
NoIndex == 0 - 1
_find_representatives_section_start(lines) ==
    LET opens(i) == StartsWith(Lower(RemoveAll(Strip(lines[i]), <<"*", "*">>)),
                               <<"r", "e", "p", "r", "e", "s", "e", "n", "t", "a", "n", "t", "e", "s", " ", "l", "e", "g", "a", "i", "s">>)
        found == {i \in 1..Len(lines) : opens(i)}
    IN IF found = {} THEN NoIndex ELSE Min(found)

\* The first prefix of field_mappings the line starts with sets its field.
_update_representative_field(line, current_rep) ==
    LET hits == {k \in 1..Len(field_mappings) : StartsWith(line, field_mappings[k][1])}
    IN IF hits = {} THEN current_rep
       ELSE LET k == Min(hits)
            IN Put(current_rep, field_mappings[k][2],
                   Strip(SubSeq(line, Len(field_mappings[k][1]) + 1, Len(line))))

\* The loop of _parse_representatives_data, were a line that opens a representative
\* to keep the fields of the one before.
RECURSIVE ParseLinesKeepingFields(_, _, _, _, _)
ParseLinesKeepingFields(lines, i, representatives, open, current_rep) ==
    IF i > Len(lines)
    THEN IF open /\ DOMAIN current_rep # {} THEN Append(representatives, current_rep)
         ELSE representatives
    ELSE LET line == Strip(lines[i])
         IN IF line = <<>> THEN ParseLinesKeepingFields(lines, i + 1, representatives, open, current_rep)
            ELSE IF StartsWith(line, <<"R", "e", "p", "r", "e", "s", "e", "n", "t", "a", "n", "t", "e", " ">>)
            THEN ParseLinesKeepingFields(lines, i + 1,
                            IF open /\ DOMAIN current_rep # {}
                            THEN Append(representatives, current_rep) ELSE representatives,
                            TRUE, current_rep)
            ELSE IF open
            THEN ParseLinesKeepingFields(lines, i + 1, representatives, open,
                            _update_representative_field(line, current_rep))
            ELSE ParseLinesKeepingFields(lines, i + 1, representatives, open, current_rep)
\* The loop of _parse_representatives_data from line i (1-based) on: open says
\* whether current_rep is a dict (not None); the result is the list with the last
\* representative added.
RECURSIVE ParseLines(_, _, _, _, _)
ParseLines(lines, i, representatives, open, current_rep) ==
    IF i > Len(lines)
    THEN IF open /\ DOMAIN current_rep # {} THEN Append(representatives, current_rep)
         ELSE representatives
    ELSE LET line == Strip(lines[i])
         IN IF line = <<>> THEN ParseLines(lines, i + 1, representatives, open, current_rep)
            ELSE IF StartsWith(line, <<"R", "e", "p", "r", "e", "s", "e", "n", "t", "a", "n", "t", "e", " ">>)
            THEN ParseLines(lines, i + 1,
                            IF open /\ DOMAIN current_rep # {}
                            THEN Append(representatives, current_rep) ELSE representatives,
                            TRUE, EmptyDict)
            ELSE IF open
            THEN ParseLines(lines, i + 1, representatives, open,
                            _update_representative_field(line, current_rep))
            ELSE ParseLines(lines, i + 1, representatives, open, current_rep)

\* The first loop of validate_and_filter on one representative.
RECURSIVE FillFields(_, _)
FillFields(r, k) ==
    IF k > Len(REP_FIELDS) THEN r
    ELSE FillFields(IF REP_FIELDS[k] \notin DOMAIN r \/ ~Truthy(r[REP_FIELDS[k]])
                    THEN Put(r, REP_FIELDS[k], DATA_NOT_AVAILABLE) ELSE r, k + 1)
\* A variant that compares the role as it is written.
CargoAsWritten(cargo) == cargo
\* cargo_upper
CargoUpper(cargo) == Upper(cargo)
is_procurador(r) ==
    \E k \in 1..Len(PROCURADOR_KEYWORDS) :
        Contains(CargoUpper(Get(r, "cargo", <<>>)), PROCURADOR_KEYWORDS[k])
\* A variant that takes the name as the key without folding its case.
NameAsWritten(nome) == Strip(nome)
\* nome_normalized
NomeNormalized(nome) == Upper(Strip(nome))
\* The last loop of validate_and_filter.
RECURSIVE UniqueRepresentatives(_, _)
UniqueRepresentatives(reps, seen_names) ==
    IF reps = <<>> THEN <<>>
    ELSE LET nome == Get(Head(reps), "nome", <<>>)
         IN IF Truthy(nome) /\ nome # DATA_NOT_AVAILABLE /\ NomeNormalized(nome) \notin seen_names
            THEN <<Head(reps)>>
                 \o UniqueRepresentatives(Tail(reps), seen_names \cup {NomeNormalized(nome)})
            ELSE UniqueRepresentatives(Tail(reps), seen_names)

validate_and_filter(representatives) ==
    IF representatives = <<>> THEN <<>>
    ELSE LET filled == [i \in 1..Len(representatives) |-> FillFields(representatives[i], 1)]
             filtered_representatives == SelectSeq(filled, LAMBDA r : ~is_procurador(r))
         IN UniqueRepresentatives(filtered_representatives, {})

_parse_representatives_data(lines, start_index) ==
    validate_and_filter(ParseLines(lines, start_index + 1, <<>>, FALSE, EmptyDict))

extract_detailed_representatives(lines) ==
    LET start_index == _find_representatives_section_start(lines)
    IN IF start_index = NoIndex THEN <<>> ELSE _parse_representatives_data(lines, start_index)

calculate_count(representatives) ==
    Cardinality({i \in 1..Len(representatives) :
                    /\ Truthy(Get(representatives[i], "nome", <<>>))
                    /\ Get(representatives[i], "nome", <<>>) # DATA_NOT_AVAILABLE})

(***************************************************************************)
(* RepresentativeValidator                                                 *)
(***************************************************************************)
procurador_terms == PROCURADOR_KEYWORDS \o <<<<"P", "R", "O", "C", "U", "R", "A", "C", "A", "O">>>>
field_pairs ==
    <<<<"tipo_assinatura", "origem_assinatura">>,
      <<"regras_representacao", "origem_regras_representacao">>,
      <<"data_validade_regras", "origem_data_validade">>>>

RECURSIVE FillRequired(_, _)
FillRequired(r, k) ==
    IF k > Len(REP_FIELDS) THEN r
    ELSE FillRequired(IF ~Truthy(Get(r, REP_FIELDS[k], None)) \/ Strip(r[REP_FIELDS[k]]) = <<>>
                      THEN Put(r, REP_FIELDS[k], DATA_NOT_AVAILABLE) ELSE r, k + 1)
_fill_empty_fields(r) ==
    LET filled == FillRequired(r, 1)
    IN [f \in DOMAIN filled \ {"endereco"} |-> filled[f]]

\* A variant that leaves the origin field as it was.
OriginKept(main_value, origin_value) == origin_value
\* The origin field after the test of one pair.
OriginForced(main_value, origin_value) ==
    IF main_value = DATA_NOT_AVAILABLE /\ origin_value # DATA_NOT_AVAILABLE
    THEN DATA_NOT_AVAILABLE ELSE origin_value
RECURSIVE ConsistentFrom(_, _)
ConsistentFrom(r, k) ==
    IF k > Len(field_pairs) THEN r
    ELSE LET main_field == field_pairs[k][1]
             origin_field == field_pairs[k][2]
             forced == OriginForced(Get(r, main_field, <<>>), Get(r, origin_field, <<>>))
         IN ConsistentFrom(IF forced # Get(r, origin_field, <<>>)
                           THEN Put(r, origin_field, forced) ELSE r, k + 1)
_validate_field_consistency(r) == ConsistentFrom(r, 1)

_filter_procuradores(representatives) ==
    SelectSeq(representatives,
              LAMBDA r : ~\E k \in 1..Len(procurador_terms) :
                            Contains(Upper(Get(r, "cargo", <<>>)), procurador_terms[k]))

\* nome_lower
NomeLower(nome) == Strip(Lower(nome))
RECURSIVE _remove_duplicates_from(_, _)
_remove_duplicates_from(reps, seen_names) ==
    IF reps = <<>> THEN <<>>
    ELSE LET nome_lower == NomeLower(Get(Head(reps), "nome", <<>>))
             named == nome_lower # <<>> /\ nome_lower # Lower(DATA_NOT_AVAILABLE)
         IN IF named /\ nome_lower \notin seen_names
            THEN <<Head(reps)>> \o _remove_duplicates_from(Tail(reps), seen_names \cup {nome_lower})
            ELSE IF ~named THEN <<Head(reps)>> \o _remove_duplicates_from(Tail(reps), seen_names)
            ELSE _remove_duplicates_from(Tail(reps), seen_names)
_remove_duplicates(representatives) == _remove_duplicates_from(representatives, {})

validate_and_normalize(representatives) ==
    IF representatives = <<>> THEN representatives
    ELSE LET checked == [i \in 1..Len(representatives) |->
                            _validate_field_consistency(_fill_empty_fields(representatives[i]))]
         IN _remove_duplicates(_filter_procuradores(checked))

\* ---- the representatives' functions on their own -------------------------
MaxReps == 3
\* What the LLM wrote of name and role of one representative.
RepBlocks ==
    {[nome |-> <<"A", "n", "a", " ", "L", "i", "m", "a">>, cargo |-> <<"D", "i", "r", "e", "t", "o", "r">>],
     [nome |-> <<"A", "N", "A", " ", "L", "I", "M", "A">>, cargo |-> <<"P", "r", "e", "s", "i", "d", "e", "n", "t", "e">>],
     [nome |-> <<"R", "u", "i", " ", "S", "a">>, cargo |-> <<"D", "i", "r", "e", "t", "o", "r">>],
     [cargo |-> <<"D", "i", "r", "e", "t", "o", "r">>],
     [nome |-> <<"A", "n", "a", " ", "L", "i", "m", "a">>, cargo |-> <<"P", "r", "o", "c", "u", "r", "a", "d", "o", "r">>],
     [nome |-> <<"R", "u", "i", " ", "S", "a">>, cargo |-> <<"M", "a", "n", "d", "a", "t", "a_acu", "r", "i", "o">>],
     [nome |-> <<"E", "v", "a", " ", "P", "a", "z">>, cargo |-> <<"S", "o", "c", "i", "o", " ", "o", "u", "t", "o", "r", "g", "a", "d", "o">>]}
\* What it wrote of a principal field and of its origin field: <<>> for a field it
\* did not write.
Unwritten == <<>>
PairChoices ==
    <<<<Unwritten, <<"A", "r", "t", ".", " ", "5">>>>,
      <<<<"I", "s", "o", "l", "a", "d", "a">>, <<"A", "r", "t", ".", " ", "5">>>>,
      <<DATA_NOT_AVAILABLE, <<"A", "r", "t", ".", " ", "5">>>>,
      <<<<" ", " ">>, Unwritten>>>>
\* The representative number i of a response: its block and, for pair j, the choice
\* number shift + i + j.
WithPairs(block, shift, i) ==
    LET choice(j) == PairChoices[((shift + i + j) % Len(PairChoices)) + 1]
        written == {j \in 1..Len(field_pairs) : choice(j)[1] # Unwritten}
        origins == {j \in 1..Len(field_pairs) : choice(j)[2] # Unwritten}
        mains == [f \in {field_pairs[j][1] : j \in written} |->
                     choice(CHOOSE j \in written : field_pairs[j][1] = f)[1]]
        origs == [f \in {field_pairs[j][2] : j \in origins} |->
                     choice(CHOOSE j \in origins : field_pairs[j][2] = f)[2]]
    IN block @@ mains @@ origs
\* The text block of one representative: a line per field it has.
BlockLines(r, i) ==
    LET fields == SelectSeq([k \in 1..Len(field_mappings) |-> k],
                            LAMBDA k : field_mappings[k][2] \in DOMAIN r)
    IN <<<<"R", "e", "p", "r", "e", "s", "e", "n", "t", "a", "n", "t", "e", " ">> \o <<DigitSeq[i + 1], ":">>>>
       \o [n \in 1..Len(fields) |->
              field_mappings[fields[n]][1] \o <<" ">> \o r[field_mappings[fields[n]][2]]]
       \o <<<<>>>>
RECURSIVE ResponseLines(_, _)
ResponseLines(reps, i) ==
    IF i > Len(reps) THEN <<>>
    ELSE BlockLines(reps[i], i) \o ResponseLines(reps, i + 1)
SectionHeader ==
    <<"*", "*", "R", "e", "p", "r", "e", "s", "e", "n", "t", "a", "n", "t", "e", "s", " ", "L", "e", "g", "a", "i", "s", ":", "*", "*">>

InitReps ==
    /\ pc = "reps"
    /\ \E n \in 0..MaxReps : \E blocks \in [1..n -> RepBlocks] : \E shift \in {0, 1} :
          /\ rep_input = [i \in 1..n |-> WithPairs(blocks[i], shift, i)]
          /\ rep_lines = <<SectionHeader>> \o ResponseLines(rep_input, 1)
    /\ rep_detailed = <<>> /\ rep_count = 0 /\ rep_refiltered = <<>>
    /\ val_result = <<>> /\ val_again = <<>>
    /\ IdleLoop /\ IdleBatch /\ IdleDoc /\ IdleDate /\ IdleCnpj /\ IdleProc /\ IdleGemini /\ IdleMore

\* _process_representatives: the structured list and its count.
ProcessRepresentatives ==
    /\ pc = "reps"
    /\ rep_detailed' = extract_detailed_representatives(rep_lines)
    /\ rep_count' = calculate_count(rep_detailed')
    /\ pc' = "reps_extracted"
    /\ UNCHANGED <<rep_input, rep_lines, rep_refiltered, val_result, val_again, outsideReps>>
\* validate_and_filter on the list it returned.
ValidateAndFilterAgain ==
    /\ pc = "reps_extracted"
    /\ rep_refiltered' = validate_and_filter(rep_detailed)
    /\ pc' = "reps_refiltered"
    /\ UNCHANGED <<rep_input, rep_lines, rep_detailed, rep_count, val_result, val_again, outsideReps>>
ValidateAndNormalize ==
    /\ pc = "reps"
    /\ val_result' = validate_and_normalize(rep_input)
    /\ pc' = "reps_validated"
    /\ UNCHANGED <<rep_input, rep_lines, rep_detailed, rep_count, rep_refiltered, val_again, outsideReps>>
\* validate_and_normalize on the list it returned.
ValidateAndNormalizeAgain ==
    /\ pc = "reps_validated"
    /\ val_again' = validate_and_normalize(val_result)
    /\ pc' = "reps_revalidated"
    /\ UNCHANGED <<rep_input, rep_lines, rep_detailed, rep_count, rep_refiltered, val_result, outsideReps>>

NextReps ==
    \/ ProcessRepresentatives
    \/ ValidateAndFilterAgain
    \/ ValidateAndNormalize
    \/ ValidateAndNormalizeAgain
SpecReps == InitReps /\ [][NextReps]_vars

\* The role holds one of the procurer keywords, whatever the case of its letters.
HoldsProcurerKeyword(cargo) ==
    \E k \in 1..Len(PROCURADOR_KEYWORDS) : Contains(Lower(cargo), Lower(PROCURADOR_KEYWORDS[k]))
\* The representative has a name: a field nome that is neither blank nor the sentinel.
Named(r) == "nome" \in DOMAIN r /\ Strip(r.nome) # <<>> /\ r.nome # DATA_NOT_AVAILABLE
\* The representatives of the response that are no procurers.
NonProcurers == {i \in 1..Len(rep_input) : ~HoldsProcurerKeyword(rep_input[i].cargo)}

\* C4: no record returned by extract_detailed_representatives has a role (cargo) that
\* contains, in any case of letters, one of the keywords <<"P", "r", "o", "c", "u", "r", "a", "d", "o", "r">>URADOR, OUTORGADO,
\* MANDATARIO with or without accent, and the representative count counts no such
\* record: it is the number of named records of the returned list and at most the
\* number of named representatives of the response that are no procurers.
C4_NoProcurerExtracted ==
    pc \in {"reps_extracted", "reps_refiltered"} =>
        /\ \A i \in 1..Len(rep_detailed) : ~HoldsProcurerKeyword(rep_detailed[i].cargo)
        /\ rep_count = Cardinality({i \in 1..Len(rep_detailed) : Named(rep_detailed[i])})
        /\ rep_count <= Cardinality({i \in NonProcurers : Named(rep_input[i])})
\* A response with "Cargo: Procurador" for Ana Lima and "Cargo: Diretor" for Rui Sa
\* was read: only Rui Sa came out, and the count is 1.
C4_Witness ==
    /\ pc = "reps_extracted"
    /\ Len(rep_input) = 2
    /\ rep_input[1].cargo = <<"P", "r", "o", "c", "u", "r", "a", "d", "o", "r">>
    /\ rep_input[2].cargo = <<"D", "i", "r", "e", "t", "o", "r">>
    /\ Named(rep_input[1]) /\ Named(rep_input[2])
    /\ Len(rep_detailed) = 1
    /\ rep_detailed[1].nome = rep_input[2].nome
    /\ rep_count = 1

\* C7: after validate_and_normalize, every returned record whose tipo_assinatura is the
\* sentinel has origem_assinatura equal to the sentinel, and the same for the pairs
\* (regras_representacao, origem_regras_representacao) and (data_validade_regras,
\* origem_data_validade).
C7_SentinelForcesOrigin ==
    pc \in {"reps_validated", "reps_revalidated"} =>
        \A i \in 1..Len(val_result) : \A k \in 1..Len(field_pairs) :
            val_result[i][field_pairs[k][1]] = DATA_NOT_AVAILABLE
                => val_result[i][field_pairs[k][2]] = DATA_NOT_AVAILABLE
\* A record that came with the sentinel as tipo_assinatura and "Art. 5" as
\* origem_assinatura was validated and came out with the sentinel in both.
C7_Witness ==
    /\ pc = "reps_validated"
    /\ Len(rep_input) >= 1 /\ Len(val_result) >= 1
    /\ "tipo_assinatura" \in DOMAIN rep_input[1]
    /\ rep_input[1].tipo_assinatura = DATA_NOT_AVAILABLE
    /\ rep_input[1].origem_assinatura = <<"A", "r", "t", ".", " ", "5">>
    /\ ~HoldsProcurerKeyword(rep_input[1].cargo)
    /\ val_result[1].tipo_assinatura = DATA_NOT_AVAILABLE
    /\ val_result[1].origem_assinatura = DATA_NOT_AVAILABLE

\* The name without the case of its letters.
CaseNormalized(nome) == Lower(Strip(nome))
\* The non-procurers that are the first of their case-normalized name, in order.
FirstOfEachName ==
    LET firsts == {i \in NonProcurers :
                      /\ Named(rep_input[i])
                      /\ \A j \in NonProcurers :
                            (j < i /\ Named(rep_input[j])) =>
                                CaseNormalized(rep_input[j].nome) # CaseNormalized(rep_input[i].nome)}
    IN SelectSeq([i \in 1..Len(rep_input) |-> i], LAMBDA i : i \in firsts)
\* Name and role of the named records of a list, in order.
NamedRecords(reps) ==
    LET named == SelectSeq(reps, Named)
    IN [k \in 1..Len(named) |-> <<named[k].nome, named[k].cargo>>]
FirstRecords ==
    [k \in 1..Len(FirstOfEachName) |->
        <<rep_input[FirstOfEachName[k]].nome, rep_input[FirstOfEachName[k]].cargo>>]

\* C8: deduplication keeps, in their original order, the first record of each
\* case-normalized name (in validate_and_filter of the extractor and in
\* validate_and_normalize of the validator), and applying the deduplicating
\* validation to its own result gives the same list.
C8_DedupKeepsFirstAndIsIdempotent ==
    /\ pc \in {"reps_extracted", "reps_refiltered"} => NamedRecords(rep_detailed) = FirstRecords
    /\ pc = "reps_refiltered" => rep_refiltered = rep_detailed
    /\ pc \in {"reps_validated", "reps_revalidated"} => NamedRecords(val_result) = FirstRecords
    /\ pc = "reps_revalidated" => val_again = val_result
\* Ana Lima (Diretor), Rui Sa, <<"A", "n", "a", " ", "L", "i", "m", "a">> LIMA (Presidente) were read: Ana Lima the Diretor
\* and Rui Sa came out, in this order, and a second validation changed nothing.
C8_Witness ==
    /\ pc = "reps_refiltered"
    /\ Len(rep_input) = 3
    /\ \A i \in 1..3 : Named(rep_input[i])
    /\ rep_input[1].nome = <<"A", "n", "a", " ", "L", "i", "m", "a">> /\ rep_input[1].cargo = <<"D", "i", "r", "e", "t", "o", "r">>
    /\ rep_input[2].nome = <<"R", "u", "i", " ", "S", "a">> /\ rep_input[2].cargo = <<"D", "i", "r", "e", "t", "o", "r">>
    /\ rep_input[3].nome = <<"A", "N", "A", " ", "L", "I", "M", "A">>
    /\ Len(rep_detailed) = 2
    /\ rep_detailed[1].nome = <<"A", "n", "a", " ", "L", "i", "m", "a">> /\ rep_detailed[1].cargo = <<"D", "i", "r", "e", "t", "o", "r">>
    /\ rep_detailed[2].nome = <<"R", "u", "i", " ", "S", "a">>
    /\ rep_refiltered = rep_detailed

(***************************************************************************)
(* DateExtractor.extract_validity_date                                     *)
(***************************************************************************)
\* ".*?" of a pattern without DOTALL: the shortest run of characters other than "\n".
AnyLazy == Lazy(Neg({"\n"}, 0, Inf))
validity_patterns ==
    <<WithGroup(Lit(<<"v", "a", "l", "i", "d">>) \o <<Cls({"a", "o"}, 1, 1), AnyLazy>>, NumericDateItems),
      WithGroup(Lit(<<"v", "i", "g", "e_cir", "n", "c", "i", "a">>) \o <<AnyLazy>>, NumericDateItems),
      WithGroup(Lit(<<"p", "r", "a", "z", "o">>) \o <<AnyLazy>>, NumericDateItems),
      WithGroup(Lit(<<"a", "t", "e_acu">>) \o <<S1>>, NumericDateItems)>>
\* The first pattern whose first match normalizes to a date.
RECURSIVE FirstValidity(_, _)
FirstValidity(text_lower, k) ==
    IF k > Len(validity_patterns) THEN None
    ELSE LET p == validity_patterns[k]
             m == ReSearch(p.pat, text_lower)
             normalized == IF m = <<>> THEN None ELSE normalize_any(Group(text_lower, m, p.a, p.b))
         IN IF normalized # None THEN normalized ELSE FirstValidity(text_lower, k + 1)
extract_validity_date(ocr_full) ==
    IF ~Truthy(ocr_full) THEN None ELSE FirstValidity(Lower(ocr_full), 1)

(***************************************************************************)
(* ProcuracaoProcessor                                                     *)
(***************************************************************************)
\* r'procura[çc][ãa]o'
ProcuracaoPattern ==
    Lit(<<"p", "r", "o", "c", "u", "r", "a">>) \o <<Cls({"c_ced", "c"}, 1, 1), Cls({"a_til", "a"}, 1, 1), One("o")>>
\* A variant that finds a procuration in every text.
HasProcuracaoAlways(ocr_full) == TRUE
_has_procuracao(ocr_full) == ReSearch(IgnoreCase(ProcuracaoPattern), ocr_full) # <<>>

\* label[:\s]+([A-Z][a-zA-Z\s]+)
AttorneyPattern(label) ==
    WithGroup(Lit(label) \o <<Cls({":"} \cup ReSpace, 1, Inf)>>,
              <<Cls(AsciiUpper, 1, 1), Cls(AsciiUpper \cup AsciiLower \cup ReSpace, 1, Inf)>>)
attorney_patterns ==
    <<AttorneyPattern(<<"o", "u", "t", "o", "r", "g", "a", "d", "o">>),
      AttorneyPattern(<<"p", "r", "o", "c", "u", "r", "a", "d", "o", "r">>),
      AttorneyPattern(<<"m", "a", "n", "d", "a", "t", "a_acu", "r", "i", "o">>)>>
\* re.sub(r'\s+', ' ', s)
CollapseSpaces(t) ==
    LET last_of_run == SelectSeq([i \in 1..Len(t) |-> <<t[i], i = Len(t) \/ t[i + 1] \notin ReSpace>>],
                                 LAMBDA c : c[1] \notin ReSpace \/ c[2])
    IN [n \in 1..Len(last_of_run) |->
           IF last_of_run[n][1] \in ReSpace THEN " " ELSE last_of_run[n][1]]
\* The inner loop of _extract_attorney_names over the matches of one pattern.
RECURSIVE NamesOfMatches(_, _, _, _)
NamesOfMatches(text, p, matches, nomes) ==
    IF matches = <<>> THEN nomes
    ELSE LET nome == CollapseSpaces(Strip(Group(text, Head(matches), p.a, p.b)))
         IN NamesOfMatches(text, p, Tail(matches),
                           IF Len(nome) > 5 /\ ~InSeq(nomes, nome) THEN Append(nomes, nome) ELSE nomes)
RECURSIVE NamesOfPatterns(_, _, _)
NamesOfPatterns(text, k, nomes) ==
    IF k > Len(attorney_patterns) THEN nomes
    ELSE LET p == attorney_patterns[k]
         IN NamesOfPatterns(text, k + 1,
                            NamesOfMatches(text, p, FindIter(IgnoreCase(p.pat), text), nomes))
_extract_attorney_names(ocr_full) == NamesOfPatterns(ocr_full, 1, <<>>)

_get_separator_for_representatives(current_representatives) ==
    IF ~Truthy(current_representatives) THEN <<>>
    ELSE IF Contains(current_representatives, <<"\n">>) THEN <<"\n">>
    ELSE <<",", " ">>
ProcuradorSuffix == <<" ", "(", "P", "r", "o", "c", "u", "r", "a", "d", "o", "r", ")">>
_add_attorneys_to_representatives(data_out, nomes) ==
    IF nomes = <<>> THEN data_out
    ELSE LET current_representatives == Get(data_out, "representantes_legais", <<>>)
             separator == _get_separator_for_representatives(current_representatives)
             attorneys_str == Join([i \in 1..Len(nomes) |-> nomes[i] \o ProcuradorSuffix], separator)
         IN Put(data_out, "representantes_legais",
                IF Truthy(current_representatives)
                THEN current_representatives \o separator \o attorneys_str
                ELSE attorneys_str)
_add_validity_to_rules(data_out, validade_iso) ==
    IF ~Truthy(validade_iso) THEN data_out
    ELSE LET validity_note == <<"V", "a", "l", "i", "d", "a", "d", "e", " ", "d", "a", " ", "p", "r", "o", "c", "u", "r", "a", "c_ced", "a_til", "o", ":", " ">> \o validade_iso
             current_rules == Get(data_out, "poderes_e_representacao", <<>>)
         IN Put(data_out, "poderes_e_representacao",
                IF Truthy(current_rules) /\ current_rules # DATA_NOT_AVAILABLE
                THEN current_rules \o <<".", " ">> \o validity_note
                ELSE validity_note)

\* _extract_procuracao_date is called too; its result is not used.
augment_with_procuracao(ocr_full, data_out) ==
    IF ~_has_procuracao(ocr_full) THEN data_out
    ELSE LET nomes == _extract_attorney_names(ocr_full)
             validade == extract_validity_date(ocr_full)
         IN _add_validity_to_rules(_add_attorneys_to_representatives(data_out, nomes), validade)

\* ---- augment_with_procuracao on its own -----------------------------------
MaxAttorneys == 2
\* How the OCR text names the procuration, if it does.
ProcuracaoWords ==
    {<<>>,
     <<"P", "r", "o", "c", "u", "r", "a", "c_ced", "a_til", "o">>,
     <<"P", "R", "O", "C", "U", "R", "A", "C", "A", "O">>,
     <<"p", "r", "o", "c", "u", "r", "a", "c_ced", "a", "o">>}
\* A label and the name after it.
AttorneyEntries ==
    {<<<<"O", "u", "t", "o", "r", "g", "a", "d", "o", ":", " ">>, <<"J", "o", "a", "o", " ", "S", "i", "l", "v", "a">>>>,
     <<<<"p", "r", "o", "c", "u", "r", "a", "d", "o", "r", " ">>, <<"M", "a", "r", "i", "a", " ", "S", "o", "u", "z", "a">>>>,
     <<<<"M", "a", "n", "d", "a", "t", "a_acu", "r", "i", "o", ":", " ">>, <<"J", "o", "a", "o", " ", "S", "i", "l", "v", "a">>>>,
     <<<<"O", "U", "T", "O", "R", "G", "A", "D", "O", ":">> \o <<"\n">>, <<"A", "n", "a">>>>}
ValidityPhrases ==
    {<<>>,
     <<"V", "a", "l", "i", "d", "a", " ", "a", "t", "e", " ", "3", "1", "/", "1", "2", "/", "2", "0", "2", "5">>,
     <<"p", "r", "a", "z", "o", ":", " ", "3", "1", "-", "1", "2", "-", "2", "0", "2", "5">>}
\* The names of the record before the augmentation.
LegalNames ==
    {<<>>,
     <<<<"A", "n", "a", " ", "L", "i", "m", "a">>>>,
     <<<<"A", "n", "a", " ", "L", "i", "m", "a">>, <<"R", "u", "i", " ", "S", "a">>>>}
PowersChoices ==
    {DATA_NOT_AVAILABLE,
     <<"A", "n", "a", " ", "L", "i", "m", "a", ":", " ", "I", "s", "o", "l", "a", "d", "a">>}
Sentence(t) == IF t = <<>> THEN <<>> ELSE t \o <<".", " ">>
RECURSIVE EntriesText(_)
EntriesText(entries) ==
    IF entries = <<>> THEN <<>>
    ELSE Sentence(Head(entries)[1] \o Head(entries)[2]) \o EntriesText(Tail(entries))
\* data_out as _process_representatives leaves it for these names.
ResultRecord(names, powers) ==
    [cnpj |-> <<"1", "2", "3", "4", "5", "6", "7", "8", "0", "0", "0", "1", "9", "9">>,
     representantes_legais |-> Join(names, <<"\n">>),
     representantes_detalhados |-> [i \in 1..Len(names) |-> [nome |-> names[i]]],
     quantidade_representantes |-> Len(names),
     poderes_e_representacao |-> powers]

InitProc ==
    /\ pc = "proc"
    /\ \E word \in ProcuracaoWords, validity \in ValidityPhrases : \E n \in 0..MaxAttorneys :
       \E entries \in [1..n -> AttorneyEntries] :
          proc_ocr = Sentence(word) \o EntriesText(entries) \o Sentence(validity)
    /\ \E names \in LegalNames, powers \in PowersChoices :
          proc_data_in = ResultRecord(names, powers)
    /\ proc_data_out = <<>>
    /\ IdleLoop /\ IdleBatch /\ IdleDoc /\ IdleDate /\ IdleCnpj /\ IdleReps /\ IdleGemini /\ IdleMore

AugmentWithProcuracao ==
    /\ pc = "proc"
    /\ proc_data_out' = augment_with_procuracao(proc_ocr, proc_data_in)
    /\ pc' = "proc_done"
    /\ UNCHANGED <<proc_ocr, proc_data_in, outsideProc>>

NextProc == AugmentWithProcuracao
SpecProc == InitProc /\ [][NextProc]_vars

\* The spellings of the word, whatever the case and with or without its accents.
ProcuracaoSpellings ==
    {<<"p", "r", "o", "c", "u", "r", "a", "c_ced", "a_til", "o">>,
     <<"p", "r", "o", "c", "u", "r", "a", "c", "a_til", "o">>,
     <<"p", "r", "o", "c", "u", "r", "a", "c_ced", "a", "o">>,
     <<"p", "r", "o", "c", "u", "r", "a", "c", "a", "o">>}
MentionsProcuracao(text) == \E w \in ProcuracaoSpellings : Contains(Lower(text), w)
\* The names the OCR text of this behaviour can give, and what may stand before one.
AttorneyNames == {e[2] : e \in AttorneyEntries}
EntrySeparators == {<<>>, <<"\n">>, <<",", " ">>}
RECURSIVE AttorneyEntriesOnly(_, _)
\* text is a run of at most n entries "<name> (Procurador)", each after a separator.
AttorneyEntriesOnly(text, n) ==
    \/ text = <<>>
    \/ /\ n > 0
       /\ \E sep \in EntrySeparators, name \in AttorneyNames :
             LET entry == sep \o name \o ProcuradorSuffix
             IN /\ StartsWith(text, entry)
                /\ AttorneyEntriesOnly(SliceFrom(text, Len(entry)), n - 1)
\* C5: augment_with_procuracao leaves representantes_detalhados and
\* quantidade_representantes (and every field but the two texts) as they were;
\* representantes_legais keeps its text and gains only entries "<name> (Procurador)";
\* and for an OCR text that does not mention a procuration in any spelling the
\* record comes back unchanged.
C5_AugmentKeepsStructuredList ==
    pc = "proc_done" =>
        /\ DOMAIN proc_data_out = DOMAIN proc_data_in
        /\ proc_data_out.representantes_detalhados = proc_data_in.representantes_detalhados
        /\ proc_data_out.quantidade_representantes = proc_data_in.quantidade_representantes
        /\ proc_data_out.cnpj = proc_data_in.cnpj
        /\ StartsWith(proc_data_out.representantes_legais, proc_data_in.representantes_legais)
        /\ AttorneyEntriesOnly(SliceFrom(proc_data_out.representantes_legais,
                                         Len(proc_data_in.representantes_legais)), MaxAttorneys)
        /\ ~MentionsProcuracao(proc_ocr) => proc_data_out = proc_data_in
\* A procuration naming Joao Silva met a record with one representative: the name
\* went to the text and the structured list still has its one entry.
C5_Witness ==
    /\ pc = "proc_done"
    /\ MentionsProcuracao(proc_ocr)
    /\ proc_data_in.representantes_legais = <<"A", "n", "a", " ", "L", "i", "m", "a">>
    /\ proc_data_out.representantes_legais = <<"A", "n", "a", " ", "L", "i", "m", "a", ",", " ", "J", "o", "a", "o", " ", "S", "i", "l", "v", "a", " ", "(", "P", "r", "o", "c", "u", "r", "a", "d", "o", "r", ")">>
    /\ Len(proc_data_out.representantes_detalhados) = 1
    /\ proc_data_out.quantidade_representantes = 1

(***************************************************************************)
(* json.loads                                                              *)
(*                                                                         *)
(* The JSON texts of these behaviours are objects (and single values) made *)
(* of strings without escape sequences, integers, null and the empty       *)
(* list. A string value is its text; null is None; a number and the empty  *)
(* list carry a mark in front, which no text has. A dict is a record of    *)
(* the keys of DEFAULT_RESPONSE_FIELDS it holds: nothing reads other keys. *)
(***************************************************************************)
EmptyList == <<"<List>">>
Number(literal) == <<"<Number>">> \o literal
IsNumber(v) == v # <<>> /\ Head(v) = "<Number>"
\* isinstance(v, str)
IsStr(v) == v = <<>> \/ Head(v) \notin {"<None>", "<List>", "<Number>"}
\* Python's truth value of a value of json.loads.
Truth(v) ==
    IF IsNumber(v) THEN \E i \in 2..Len(v) : v[i] \in (Digits \ {"0"})
    ELSE v \notin {<<>>, None, EmptyList}
\* A raised exception, in the place of a result.
Raised == [raised |-> TRUE]

\* The keys of the result record and how each is spelled.
FIELD_NAMES ==
    <<"junta_comercial", "cnpj", "razao_social", "natureza_juridica", "endereco", "cotas_societarias",
      "representantes_legais", "representantes_detalhados", "quantidade_representantes", "referencia_da_origem",
      "data_assinatura", "poderes_e_representacao">>
FIELD_SPELLINGS ==
    <<<<"j", "u", "n", "t", "a", "_", "c", "o", "m", "e", "r", "c", "i", "a", "l">>,
      <<"c", "n", "p", "j">>,
      <<"r", "a", "z", "a", "o", "_", "s", "o", "c", "i", "a", "l">>,
      <<"n", "a", "t", "u", "r", "e", "z", "a", "_", "j", "u", "r", "i", "d", "i", "c", "a">>,
      <<"e", "n", "d", "e", "r", "e", "c", "o">>,
      <<"c", "o", "t", "a", "s", "_", "s", "o", "c", "i", "e", "t", "a", "r", "i", "a", "s">>,
      <<"r", "e", "p", "r", "e", "s", "e", "n", "t", "a", "n", "t", "e", "s", "_", "l", "e", "g", "a", "i", "s">>,
      <<"r", "e", "p", "r", "e", "s", "e", "n", "t", "a", "n", "t", "e", "s", "_", "d", "e", "t", "a", "l", "h", "a", "d", "o", "s">>,
      <<"q", "u", "a", "n", "t", "i", "d", "a", "d", "e", "_", "r", "e", "p", "r", "e", "s", "e", "n", "t", "a", "n", "t", "e", "s">>,
      <<"r", "e", "f", "e", "r", "e", "n", "c", "i", "a", "_", "d", "a", "_", "o", "r", "i", "g", "e", "m">>,
      <<"d", "a", "t", "a", "_", "a", "s", "s", "i", "n", "a", "t", "u", "r", "a">>,
      <<"p", "o", "d", "e", "r", "e", "s", "_", "e", "_", "r", "e", "p", "r", "e", "s", "e", "n", "t", "a", "c", "a", "o">>>>
KnownKey(key) == \E k \in 1..Len(FIELD_SPELLINGS) : FIELD_SPELLINGS[k] = key
FieldOf(key) == FIELD_NAMES[CHOOSE k \in 1..Len(FIELD_SPELLINGS) : FIELD_SPELLINGS[k] = key]

JsonSpace == {" ", "\n", "\t", "\r"}
SkipSpace(s, i) == i + RunLen(Cls(JsonSpace, 0, Inf), s, i, 0)
\* The outcome of reading one construct at a position: the position after it and its value.
Unread == [ok |-> FALSE, next |-> 0, val |-> <<>>]
Read(next, val) == [ok |-> TRUE, next |-> next, val |-> val]
ReadString(s, i) ==
    IF i > Len(s) \/ s[i] # "\"" THEN Unread
    ELSE LET j == i + 1 + RunLen(Neg({"\"", "\\", "\n", "\t", "\r"}, 0, Inf), s, i + 1, 0)
         IN IF j <= Len(s) /\ s[j] = "\"" THEN Read(j + 1, SubSeq(s, i + 1, j - 1)) ELSE Unread
ReadNumber(s, i) ==
    LET d == IF i <= Len(s) /\ s[i] = "-" THEN i + 1 ELSE i
        n == RunLen(Cls(Digits, 0, Inf), s, d, 0)
    IN IF n = 0 \/ (n > 1 /\ s[d] = "0") THEN Unread
       ELSE Read(d + n, Number(SubSeq(s, i, d + n - 1)))
ReadValue(s, i) ==
    IF i > Len(s) THEN Unread
    ELSE IF s[i] = "\"" THEN ReadString(s, i)
    ELSE IF OccursAt(s, <<"n", "u", "l", "l">>, i) THEN Read(i + 4, None)
    ELSE IF s[i] = "["
    THEN LET j == SkipSpace(s, i + 1)
         IN IF j <= Len(s) /\ s[j] = "]" THEN Read(j + 1, EmptyList) ELSE Unread
    ELSE ReadNumber(s, i)
\* The members of an object from position i on, up to its closing brace; a key
\* written twice keeps its last value.
RECURSIVE ReadMembers(_, _, _)
ReadMembers(s, i, dict) ==
    LET key == ReadString(s, i)
        colon == IF key.ok THEN SkipSpace(s, key.next) ELSE 0
        value == IF key.ok /\ colon <= Len(s) /\ s[colon] = ":"
                 THEN ReadValue(s, SkipSpace(s, colon + 1)) ELSE Unread
        after == IF value.ok THEN SkipSpace(s, value.next) ELSE 0
        entered == IF value.ok /\ KnownKey(key.val) THEN Put(dict, FieldOf(key.val), value.val) ELSE dict
    IN IF ~value.ok \/ after > Len(s) THEN Unread
       ELSE IF s[after] = "}" THEN Read(after + 1, entered)
       ELSE IF s[after] = "," THEN ReadMembers(s, SkipSpace(s, after + 1), entered)
       ELSE Unread
ReadObject(s, i) ==
    LET j == SkipSpace(s, i + 1)
    IN IF j <= Len(s) /\ s[j] = "}" THEN Read(j + 1, EmptyDict) ELSE ReadMembers(s, j, EmptyDict)
\* json.loads(s): ok is FALSE for a JSONDecodeError; isdict tells a dict from the other values.
JSONDecodeError == [ok |-> FALSE, isdict |-> FALSE, val |-> <<>>]
json_loads(s) ==
    LET i == SkipSpace(s, 1)
        isdict == i <= Len(s) /\ s[i] = "{"
        r == IF isdict THEN ReadObject(s, i) ELSE ReadValue(s, i)
    IN IF r.ok /\ SkipSpace(s, r.next) = Len(s) + 1
       THEN [ok |-> TRUE, isdict |-> isdict, val |-> r.val]
       ELSE JSONDecodeError

(***************************************************************************)
(* GeminiResponseProcessor.extract_json_from_response                      *)
(***************************************************************************)
DEFAULT_RESPONSE_FIELDS ==
    [junta_comercial |-> <<>>, cnpj |-> <<>>, razao_social |-> <<>>, natureza_juridica |-> <<>>,
     endereco |-> <<>>, cotas_societarias |-> <<>>, representantes_legais |-> <<>>,
     representantes_detalhados |-> <<>>, quantidade_representantes |-> 0,
     referencia_da_origem |-> <<>>, data_assinatura |-> <<>>, poderes_e_representacao |-> <<>>]
Fence == <<"backtick", "backtick", "backtick">>
JsonFence == <<"backtick", "backtick", "backtick", "j", "s", "o", "n">>
\* blob[a:-b]
SliceBetween(blob, a, b) == SubSeq(blob, a + 1, Len(blob) - b)
\* str.find and str.rfind of one character: the 0-based offset, -1 when absent.
Find(s, c) == IF InSeq(s, c) THEN (CHOOSE i \in 1..Len(s) : s[i] = c /\ \A j \in 1..(i - 1) : s[j] # c) - 1
              ELSE 0 - 1
RFind(s, c) == IF InSeq(s, c) THEN (CHOOSE i \in 1..Len(s) : s[i] = c /\ \A j \in (i + 1)..Len(s) : s[j] # c) - 1
               ELSE 0 - 1
Unfenced(blob) ==
    LET stripped == Strip(blob)
    IN IF StartsWith(stripped, JsonFence) /\ EndsWith(stripped, Fence)
       THEN Strip(SliceBetween(stripped, Len(JsonFence), Len(Fence)))
       ELSE IF StartsWith(stripped, Fence) /\ EndsWith(stripped, Fence)
       THEN Strip(SliceBetween(stripped, Len(Fence), Len(Fence)))
       ELSE stripped
_extract_first_json(response_text) ==
    LET blob == Unfenced(response_text)
        start == Find(blob, "{")
        end == RFind(blob, "}")
        candidate == SubSeq(blob, start + 1, end + 1)
    IN IF StartsWith(blob, <<"{">>) /\ EndsWith(blob, <<"}">>) /\ json_loads(blob).ok THEN blob
       ELSE IF start # 0 - 1 /\ end # 0 - 1 /\ end > start /\ json_loads(candidate).ok THEN candidate
       ELSE blob
extract_json_from_response(response_text) ==
    Bind(json_loads(_extract_first_json(response_text)), LAMBDA loaded :
        IF loaded.ok THEN loaded
        ELSE [ok |-> TRUE, isdict |-> TRUE, val |-> DEFAULT_RESPONSE_FIELDS])

(***************************************************************************)
(* FieldExtractor                                                          *)
(***************************************************************************)
\* line.replace('**', '').strip()
_normalize_line(line) == Strip(RemoveAll(line, <<"*", "*">>))
\* The first line that starts with the label, whatever the case; 0 when there is none.
AnchorLine(target, lines) ==
    LET anchors == {i \in 1..Len(lines) : StartsWith(Lower(_normalize_line(lines[i])), Lower(target))}
    IN IF anchors = {} THEN 0 ELSE CHOOSE i \in anchors : \A j \in anchors : i <= j
extract_line_field(target, lines) ==
    LET i == AnchorLine(target, lines)
    IN IF i = 0 THEN <<>> ELSE Strip(SliceFrom(_normalize_line(lines[i]), Len(target)))
\* The loop of _collect_block_value from line j on, were a line ending with ':' to end
\* the block also right after the anchor.
RECURSIVE CollectBlockAnyColonEnds(_, _, _, _)
CollectBlockAnyColonEnds(lines, j, start_index, block_lines) ==
    IF j > Len(lines) THEN block_lines
    ELSE LET next_line == Strip(lines[j])
             next_line_clean == _normalize_line(next_line)
         IN IF next_line = <<>> THEN CollectBlockAnyColonEnds(lines, j + 1, start_index, block_lines)
            ELSE IF EndsWith(next_line_clean, <<":">>) THEN block_lines
            ELSE CollectBlockAnyColonEnds(lines, j + 1, start_index, Append(block_lines, next_line_clean))
\* The loop of _collect_block_value from line j on.
RECURSIVE CollectBlock(_, _, _, _)
CollectBlock(lines, j, start_index, block_lines) ==
    IF j > Len(lines) THEN block_lines
    ELSE LET next_line == Strip(lines[j])
             next_line_clean == _normalize_line(next_line)
         IN IF next_line = <<>> THEN CollectBlock(lines, j + 1, start_index, block_lines)
            ELSE IF EndsWith(next_line_clean, <<":">>) /\ j > start_index + 1 THEN block_lines
            ELSE CollectBlock(lines, j + 1, start_index, Append(block_lines, next_line_clean))
_collect_block_value(lines, start_index, target) ==
    LET inline_value == Strip(SliceFrom(_normalize_line(lines[start_index]), Len(target)))
    IN Strip(Join(CollectBlock(lines, start_index + 1, start_index,
                               IF inline_value # <<>> THEN <<inline_value>> ELSE <<>>), <<"\n">>))
extract_block_field(target, lines) ==
    LET i == AnchorLine(target, lines)
    IN IF i = 0 THEN <<>> ELSE _collect_block_value(lines, i, target)

(***************************************************************************)
(* GeminiResponseProcessor.parse_text_response                             *)
(***************************************************************************)
\* s.replace('\n', ', ')
RECURSIVE NewlinesToCommas(_)
NewlinesToCommas(t) ==
    IF t = <<>> THEN <<>>
    ELSE IF Len(t) = 1 THEN (IF t[1] = "\n" THEN <<",", " ">> ELSE t)
    ELSE NewlinesToCommas(SubSeq(t, 1, Len(t) \div 2))
         \o NewlinesToCommas(SubSeq(t, (Len(t) \div 2) + 1, Len(t)))
\* _get_field_target for the fields of one line.
simple_fields ==
    <<<<"cnpj", <<"C", "N", "P", "J", ":">>>>,
      <<"razao_social", <<"R", "a", "z", "a_til", "o", " ", "S", "o", "c", "i", "a", "l", ":">>>>,
      <<"junta_comercial", <<"J", "u", "n", "t", "a", " ", "C", "o", "m", "e", "r", "c", "i", "a", "l", ":">>>>,
      <<"endereco", <<"E", "n", "d", "e", "r", "e", "c_ced", "o", ":">>>>,
      <<"natureza_juridica", <<"N", "a", "t", "u", "r", "e", "z", "a", " ", "J", "u", "r", "i_acu", "d", "i", "c", "a", ":">>>>>>
RECURSIVE PutSimpleFields(_, _, _)
PutSimpleFields(data_out, lines, k) ==
    IF k > Len(simple_fields) THEN data_out
    ELSE PutSimpleFields(Put(data_out, simple_fields[k][1], extract_line_field(simple_fields[k][2], lines)),
                         lines, k + 1)
parse_text_response(response_text) ==
    LET lines == SplitChar(response_text, "\n")
        cotas == extract_block_field(<<"C", "o", "t", "a", "s", " ", "s", "o", "c", "i", "e", "t", "a_acu", "r", "i", "a", "s", ":">>, lines)
        data_line == extract_line_field(<<"D", "a", "t", "a", " ", "d", "e", " ", "a", "s", "s", "i", "n", "a", "t", "u", "r", "a", ":">>, lines)
        data_assinatura == IF data_line # <<>> THEN data_line
                           ELSE extract_block_field(<<"D", "a", "t", "a", " ", "d", "e", " ", "a", "s", "s", "i", "n", "a", "t", "u", "r", "a", ":">>, lines)
        referencia == extract_line_field(<<"R", "e", "f", "e", "r", "e_cir", "n", "c", "i", "a", " ", "d", "a", " ", "o", "r", "i", "g", "e", "m", ":">>, lines)
    IN [PutSimpleFields(DEFAULT_RESPONSE_FIELDS, lines, 1) EXCEPT
            !.cotas_societarias = NewlinesToCommas(cotas),
            !.data_assinatura = NewlinesToCommas(data_assinatura),
            !.referencia_da_origem = IF referencia # <<>> THEN referencia ELSE DATA_NOT_AVAILABLE]

(***************************************************************************)
(* CompanyExtractor                                                        *)
(***************************************************************************)
\* The acronym and the name of each board; the value returned is "name (acronym)".
JUNTAS_COMERCIAIS ==
    <<<<<<"J", "U", "C", "E", "S", "P">>,
        <<"J", "u", "n", "t", "a", " ", "C", "o", "m", "e", "r", "c", "i", "a", "l", " ", "d", "o", " ", "E", "s", "t", "a", "d", "o", " ", "d", "e", " ", "S", "a_til", "o", " ", "P", "a", "u", "l", "o">>>>,
      <<<<"J", "U", "C", "E", "R", "J", "A">>,
        <<"J", "u", "n", "t", "a", " ", "C", "o", "m", "e", "r", "c", "i", "a", "l", " ", "d", "o", " ", "E", "s", "t", "a", "d", "o", " ", "d", "o", " ", "R", "i", "o", " ", "d", "e", " ", "J", "a", "n", "e", "i", "r", "o">>>>,
      <<<<"J", "U", "C", "E", "M", "G">>,
        <<"J", "u", "n", "t", "a", " ", "C", "o", "m", "e", "r", "c", "i", "a", "l", " ", "d", "o", " ", "E", "s", "t", "a", "d", "o", " ", "d", "e", " ", "M", "i", "n", "a", "s", " ", "G", "e", "r", "a", "i", "s">>>>,
      <<<<"J", "U", "C", "E", "P", "A", "R">>,
        <<"J", "u", "n", "t", "a", " ", "C", "o", "m", "e", "r", "c", "i", "a", "l", " ", "d", "o", " ", "E", "s", "t", "a", "d", "o", " ", "d", "o", " ", "P", "a", "r", "a", "n", "a_acu">>>>,
      <<<<"J", "U", "C", "E", "R", "G", "S">>,
        <<"J", "u", "n", "t", "a", " ", "C", "o", "m", "e", "r", "c", "i", "a", "l", " ", "d", "o", " ", "E", "s", "t", "a", "d", "o", " ", "d", "o", " ", "R", "i", "o", " ", "G", "r", "a", "n", "d", "e", " ", "d", "o", " ", "S", "u", "l">>>>,
      <<<<"J", "U", "C", "E", "S", "C">>,
        <<"J", "u", "n", "t", "a", " ", "C", "o", "m", "e", "r", "c", "i", "a", "l", " ", "d", "o", " ", "E", "s", "t", "a", "d", "o", " ", "d", "e", " ", "S", "a", "n", "t", "a", " ", "C", "a", "t", "a", "r", "i", "n", "a">>>>,
      <<<<"J", "U", "C", "E", "B">>,
        <<"J", "u", "n", "t", "a", " ", "C", "o", "m", "e", "r", "c", "i", "a", "l", " ", "d", "o", " ", "E", "s", "t", "a", "d", "o", " ", "d", "a", " ", "B", "a", "h", "i", "a">>>>,
      <<<<"J", "U", "C", "E", "P", "E">>,
        <<"J", "u", "n", "t", "a", " ", "C", "o", "m", "e", "r", "c", "i", "a", "l", " ", "d", "o", " ", "E", "s", "t", "a", "d", "o", " ", "d", "e", " ", "P", "e", "r", "n", "a", "m", "b", "u", "c", "o">>>>,
      <<<<"J", "U", "C", "E", "C">>,
        <<"J", "u", "n", "t", "a", " ", "C", "o", "m", "e", "r", "c", "i", "a", "l", " ", "d", "o", " ", "E", "s", "t", "a", "d", "o", " ", "d", "o", " ", "C", "e", "a", "r", "a_acu">>>>,
      <<<<"J", "C", "D", "F">>,
        <<"J", "u", "n", "t", "a", " ", "C", "o", "m", "e", "r", "c", "i", "a", "l", " ", "d", "o", " ", "D", "i", "s", "t", "r", "i", "t", "o", " ", "F", "e", "d", "e", "r", "a", "l">>>>>>
\* re.search of a literal text with re.IGNORECASE.
ContainsFolded(s, t) == Contains(Lower(s), Lower(t))
RECURSIVE FirstJunta(_, _)
FirstJunta(text_upper, k) ==
    IF k > Len(JUNTAS_COMERCIAIS) THEN None
    ELSE LET junta == JUNTAS_COMERCIAIS[k]
         IN IF ContainsFolded(text_upper, junta[1]) \/ ContainsFolded(text_upper, junta[2])
            THEN junta[2] \o <<" ", "(">> \o junta[1] \o <<")">>
            ELSE FirstJunta(text_upper, k + 1)
extract_junta_comercial(ocr) == IF ~Truthy(ocr) THEN None ELSE FirstJunta(Upper(ocr), 1)

suffixes_pattern ==
    Alt(<<<<"L", "T", "D", "A">>,
          <<"S", ".", "A", ".">>,
          <<"S", "A">>,
          <<"S", "/", "A">>,
          <<"E", "I", "R", "E", "L", "I">>,
          <<"M", "E", "I">>,
          <<"E", "I">>,
          <<"L", "T", "D", "A", ".">>,
          <<"E", "P", "P">>,
          <<"M", "E">>,
          <<"S", "O", "C", "I", "E", "D", "A", "D", "E", " ", "S", "I", "M", "P", "L", "E", "S">>,
          <<"S", "S">>>>)
\* [A-Z\s&\'-\.]: the range from the apostrophe to the full stop is ' ( ) * + , - .
NameChars == AsciiUpper \cup ReSpace \cup {"&", "'", "(", ")", "*", "+", ",", "-", "."}
\* [:\s\n]+
LabelGapChars == Cls({":"} \cup ReSpace, 1, Inf)
\* [A-Z][A-Z\s&\'-\.]{lo,} followed by a suffix and \.?
CompanyName(lo) == <<Cls(AsciiUpper, 1, 1), Cls(NameChars, lo, Inf), suffixes_pattern, Opt(".")>>
razao_social_patterns ==
    <<WithGroup(Lit(<<"N", "O", "M", "E", " ", "E", "M", "P", "R", "E", "S", "A", "R", "I", "A", "L">>) \o <<LabelGapChars>>, CompanyName(1)),
      WithGroup(Lit(<<"R", "A", "Z">>) \o <<Cls({"A", "A_TIL"}, 1, 1)>> \o Lit(<<"O", " ", "S", "O", "C", "I", "A", "L">>) \o <<LabelGapChars>>,
                CompanyName(1)),
      WithGroup(Lit(<<"E", "M", "P", "R", "E", "S", "A">>) \o <<LabelGapChars>>, CompanyName(1)),
      [pat |-> <<WordB>> \o CompanyName(10) \o <<WordB>>, a |-> 2, b |-> 5]>>
RECURSIVE FirstLongName(_, _, _)
FirstLongName(text, p, matches) ==
    IF matches = <<>> THEN <<>>
    ELSE LET razao == CollapseSpaces(Strip(Group(text, Head(matches), p.a, p.b)))
         IN IF Len(razao) > 5 THEN razao ELSE FirstLongName(text, p, Tail(matches))
RECURSIVE FirstRazao(_, _)
FirstRazao(text, k) ==
    IF k > Len(razao_social_patterns) THEN <<>>
    ELSE LET p == razao_social_patterns[k]
             razao == FirstLongName(text, p, FindIter(IgnoreCase(p.pat), text))
         IN IF razao # <<>> THEN razao ELSE FirstRazao(text, k + 1)
extract_razao_social(ocr) == IF ~Truthy(ocr) THEN <<>> ELSE FirstRazao(ocr, 1)

COMPANY_SUFFIXES ==
    <<<<"L", "T", "D", "A">>,
      <<"S", ".", "A", ".">>,
      <<"S", "A">>,
      <<"S", "/", "A">>,
      <<"E", "I", "R", "E", "L", "I">>,
      <<"M", "E", "I">>,
      <<"E", "I">>,
      <<"L", "T", "D", "A", ".">>,
      <<"E", "P", "P">>,
      <<"M", "E">>,
      <<"M", "I", "C", "R", "O", "E", "M", "P", "R", "E", "S", "A">>,
      <<"E", "M", "P", "R", "E", "S", "A", " ", "D", "E", " ", "P", "E", "Q", "U", "E", "N", "O", " ", "P", "O", "R", "T", "E">>,
      <<"S", "O", "C", "I", "E", "D", "A", "D", "E", " ", "S", "I", "M", "P", "L", "E", "S">>,
      <<"S", "S">>,
      <<"C", "O", "O", "P", "E", "R", "A", "T", "I", "V", "A">>,
      <<"C", "O", "O", "P">>,
      <<"F", "U", "N", "D", "A", "C", "A", "O">>,
      <<"A", "S", "S", "O", "C", "I", "A", "C", "A", "O">>,
      <<"O", "S", "C", "I", "P">>,
      <<"O", "N", "G">>,
      <<"E", "M", "P", "R", "E", "S", "A", " ", "I", "N", "D", "I", "V", "I", "D", "U", "A", "L", " ", "D", "E", " ", "R", "E", "S", "P", "O", "N", "S", "A", "B", "I", "L", "I", "D", "A", "D", "E", " ", "L", "I", "M", "I", "T", "A", "D", "A">>,
      <<"M", "I", "C", "R", "O", "E", "M", "P", "R", "E", "E", "N", "D", "E", "D", "O", "R", " ", "I", "N", "D", "I", "V", "I", "D", "U", "A", "L">>,
      <<"E", "M", "P", "R", "E", "S", "A", "R", "I", "O", " ", "I", "N", "D", "I", "V", "I", "D", "U", "A", "L">>>>
\* S\s*\.\s*A\s*\.   S\s*\.\s*A\b   S\s*/\s*A\b
sa_patterns ==
    <<<<One("S"), S0, One("."), S0, One("A"), S0, One(".")>>,
      <<One("S"), S0, One("."), S0, One("A"), WordB>>,
      <<One("S"), S0, One("/"), S0, One("A"), WordB>>>>
\* re.sub(r'(?<=\w)\s+(?=\w)', '', s): the white space between two word characters goes.
\* From position i on: a character goes when it is white space and the run of white
\* space it is in (from i on) has a word character on both sides.
JoinWordsFrom(s, i) ==
    LET first(j) == CHOOSE a \in i..j : \A h \in i..j : (h >= a) = (\A g \in h..j : s[g] \in ReSpace)
        last(j) == CHOOSE b \in j..Len(s) : \A h \in j..Len(s) : (h <= b) = (\A g \in j..h : s[g] \in ReSpace)
        goes(j) == s[j] \in ReSpace /\ IsWordAt(s, first(j) - 1) /\ IsWordAt(s, last(j) + 1)
        stay == SelectSeq([n \in 1..(Len(s) + 1 - i) |-> i + n - 1], LAMBDA j : ~goes(j))
    IN [n \in 1..Len(stay) |-> s[stay[n]]]
RECURSIVE FirstSuffix(_, _)
FirstSuffix(razao_normalized, k) ==
    IF k > Len(COMPANY_SUFFIXES) THEN DATA_NOT_AVAILABLE
    ELSE IF ReSearch(<<WordB>> \o Lit(COMPANY_SUFFIXES[k]) \o <<WordB>>, razao_normalized) # <<>>
    THEN COMPANY_SUFFIXES[k]
    ELSE FirstSuffix(razao_normalized, k + 1)
extract_natureza_juridica(razao_social) ==
    IF ~Truthy(razao_social) THEN DATA_NOT_AVAILABLE
    ELSE LET razao_upper == Upper(razao_social)
         IN IF \E k \in 1..Len(sa_patterns) : ReSearch(sa_patterns[k], razao_upper) # <<>>
            THEN <<"S", ".", "A", ".">>
            ELSE FirstSuffix(JoinWordsFrom(razao_upper, 1), 1)

(***************************************************************************)
(* GeminiResponseProcessor.apply_fallbacks, validate_final_fields,         *)
(* consolidate_poderes_representacao                                       *)
(***************************************************************************)
\* f applied to a record, unless an exception was raised before.
Then(data_out, f(_)) == IF data_out = Raised THEN Raised ELSE f(data_out)
\* data_out.get(field) is falsy.
Missing(data_out, field) == ~Truth(Get(data_out, field, None))
FallbackJunta(data_out, ocr) ==
    LET junta == extract_junta_comercial(ocr)
    IN IF Missing(data_out, "junta_comercial") /\ Truthy(junta)
       THEN Put(data_out, "junta_comercial", junta) ELSE data_out
FallbackCnpj(data_out, ocr) ==
    LET cnpj == extract_from_ocr(ocr)
    IN IF Missing(data_out, "cnpj") /\ Truthy(cnpj) THEN Put(data_out, "cnpj", cnpj) ELSE data_out
FallbackRazao(data_out, ocr) ==
    LET razao == extract_razao_social(ocr)
    IN IF Missing(data_out, "razao_social") /\ Truthy(razao)
       THEN Put(data_out, "razao_social", razao) ELSE data_out
\* extract_natureza_juridica calls upper() on the company name: a name that is not a
\* text raises.
FallbackNatureza(data_out) ==
    LET razao_social == Get(data_out, "razao_social", <<>>)
    IN IF Missing(data_out, "natureza_juridica") \/ data_out.natureza_juridica = DATA_NOT_AVAILABLE
       THEN IF Truth(razao_social) /\ ~IsStr(razao_social) THEN Raised
            ELSE Put(data_out, "natureza_juridica",
                     extract_natureza_juridica(IF Truth(razao_social) THEN razao_social ELSE <<>>))
       ELSE data_out
apply_fallbacks(data_out, ocr) ==
    FallbackNatureza(FallbackRazao(FallbackCnpj(FallbackJunta(data_out, ocr), ocr), ocr))

\* data_assinatura.strip() raises for a truthy value that is not a text.
validate_final_fields(data_out) ==
    LET data_assinatura == Get(data_out, "data_assinatura", None)
        dated == IF ~Truth(data_assinatura) THEN Put(data_out, "data_assinatura", DATA_NOT_AVAILABLE)
                 ELSE IF ~IsStr(data_assinatura) THEN Raised
                 ELSE IF Strip(data_assinatura) = <<>>
                 THEN Put(data_out, "data_assinatura", DATA_NOT_AVAILABLE)
                 ELSE data_out
        Referenced(d) == IF Missing(d, "referencia_da_origem")
                         THEN Put(d, "referencia_da_origem", DATA_NOT_AVAILABLE) ELSE d
        Shared(d) == IF Missing(d, "cotas_societarias")
                     THEN Put(d, "cotas_societarias", DATA_NOT_AVAILABLE) ELSE d
    IN Then(Then(dated, Referenced), Shared)

RECURSIVE PoderesList(_)
PoderesList(representantes_detalhados) ==
    IF representantes_detalhados = <<>> THEN <<>>
    ELSE LET r == Head(representantes_detalhados)
             regras == Get(r, "regras_representacao", <<>>)
             nome == Get(r, "nome", <<"R", "e", "p", "r", "e", "s", "e", "n", "t", "a", "n", "t", "e">>)
         IN (IF Truthy(regras) /\ regras # DATA_NOT_AVAILABLE
             THEN <<nome \o <<":", " ">> \o regras>> ELSE <<>>)
            \o PoderesList(Tail(representantes_detalhados))
consolidate_poderes_representacao(representantes_detalhados) ==
    IF PoderesList(representantes_detalhados) = <<>> THEN DATA_NOT_AVAILABLE
    ELSE Join(PoderesList(representantes_detalhados), <<";", " ">>)

(***************************************************************************)
(* CoreProcessor._process_gemini_response, _process_representatives        *)
(***************************************************************************)
\* A value of json.loads that is truthy and no dict has no get(): the call raises.
_process_gemini_response(gemini_response, ocr) ==
    Bind(extract_json_from_response(gemini_response), LAMBDA loaded :
        IF ~loaded.isdict /\ Truth(loaded.val) THEN Raised
        ELSE Then(apply_fallbacks(IF loaded.isdict /\ ~Missing(loaded.val, "cnpj") THEN loaded.val
                                  ELSE parse_text_response(gemini_response), ocr),
                  validate_final_fields))
\* A variant that keeps the names the record already holds.
KeepingNamesOfRecord(gemini_response, data_out) ==
    LET representatives == extract_detailed_representatives(SplitChar(gemini_response, "\n"))
        named == SelectSeq(representatives,
                           LAMBDA r : Truthy(Get(r, "nome", None)) /\ r.nome # DATA_NOT_AVAILABLE)
        names == [i \in 1..Len(named) |-> named[i].nome]
    IN Put(Put(Put(Put(data_out,
           "representantes_detalhados", representatives),
           "quantidade_representantes", calculate_count(representatives)),
           "poderes_e_representacao", consolidate_poderes_representacao(representatives)),
           "representantes_legais",
               IF Truth(Get(data_out, "representantes_legais", None))
               THEN data_out.representantes_legais ELSE Join(names, <<"\n">>))
_process_representatives(gemini_response, data_out) ==
    LET representatives == extract_detailed_representatives(SplitChar(gemini_response, "\n"))
        named == SelectSeq(representatives,
                           LAMBDA r : Truthy(Get(r, "nome", None)) /\ r.nome # DATA_NOT_AVAILABLE)
        names == [i \in 1..Len(named) |-> named[i].nome]
    IN Put(Put(Put(Put(data_out,
           "representantes_detalhados", representatives),
           "quantidade_representantes", calculate_count(representatives)),
           "poderes_e_representacao", consolidate_poderes_representacao(representatives)),
           "representantes_legais", Join(names, <<"\n">>))

(***************************************************************************)
(* ResponseBuilder                                                         *)
(***************************************************************************)
required_fields ==
    <<"junta_comercial", "cnpj", "razao_social", "natureza_juridica", "endereco",
      "cotas_societarias", "representantes_legais", "referencia_da_origem",
      "data_assinatura", "poderes_e_representacao">>
\* A variant that leaves the CNPJ as it was written.
CnpjKept(data_out) == data_out
\* re.sub in normalize raises for a truthy value that is not a text.
NormalizeCnpj(data_out) ==
    IF "cnpj" \notin DOMAIN data_out THEN data_out
    ELSE IF ~Truth(data_out.cnpj) THEN Put(data_out, "cnpj", <<>>)
    ELSE IF ~IsStr(data_out.cnpj) THEN Raised
    ELSE Put(data_out, "cnpj", normalize(data_out.cnpj))
NormalizeSignatureDate(data_out) ==
    IF "data_assinatura" \notin DOMAIN data_out \/ ~Truth(data_out.data_assinatura) THEN data_out
    ELSE IF ~IsStr(data_out.data_assinatura) THEN Raised
    ELSE LET normalized_date == normalize_any(data_out.data_assinatura)
         IN IF Truthy(normalized_date) THEN Put(data_out, "data_assinatura", normalized_date)
            ELSE data_out
NormalizeValidity(rep) ==
    IF "data_validade_regras" \notin DOMAIN rep THEN rep
    ELSE LET normalized == normalize_any(rep.data_validade_regras)
         IN IF Truthy(normalized) THEN Put(rep, "data_validade_regras", normalized) ELSE rep
NormalizeRepresentatives(data_out) ==
    IF "representantes_detalhados" \notin DOMAIN data_out THEN data_out
    ELSE Put(data_out, "representantes_detalhados",
             [i \in 1..Len(data_out.representantes_detalhados) |->
                 NormalizeValidity(data_out.representantes_detalhados[i])])
normalize_output(data_out) ==
    Then(Then(NormalizeCnpj(data_out), NormalizeSignatureDate), NormalizeRepresentatives)

\* data_out[field].strip() raises for a truthy value that is not a text.
RECURSIVE RequireFields(_, _)
RequireFields(data_out, k) ==
    IF k > Len(required_fields) THEN data_out
    ELSE LET field == required_fields[k]
         IN IF Missing(data_out, field)
            THEN RequireFields(Put(data_out, field, DATA_NOT_AVAILABLE), k + 1)
            ELSE IF ~IsStr(data_out[field]) THEN Raised
            ELSE IF Strip(data_out[field]) = <<>>
            THEN RequireFields(Put(data_out, field, DATA_NOT_AVAILABLE), k + 1)
            ELSE RequireFields(data_out, k + 1)
\* A variant that substitutes nothing.
RequiredFieldsKept(data_out) == data_out
validate_required_fields(data_out) ==
    LET WithDetailed(d) == IF "representantes_detalhados" \in DOMAIN d THEN d
                           ELSE Put(d, "representantes_detalhados", <<>>)
        WithCount(d) == IF "quantidade_representantes" \in DOMAIN d THEN d
                        ELSE Put(d, "quantidade_representantes", Len(d.representantes_detalhados))
    IN Then(Then(RequireFields(data_out, 1), WithDetailed), WithCount)
\* ' '.join(s.split()) on each text field.
clean_output(data_out) ==
    [f \in DOMAIN data_out |->
        IF InSeq(required_fields, f) /\ IsStr(data_out[f]) THEN CollapseSpaces(Strip(data_out[f]))
        ELSE data_out[f]]
\* build_final_response up to the record that build_response puts under "data".
build_final_response(data_out) ==
    Then(Then(normalize_output(data_out), validate_required_fields), clean_output)

\* ---- process_message, from the LLM response to the final record -----------
\* How a field is written in the response: its JSON text and the value json.loads
\* gives for it.
Str(t) == [json |-> <<"\"">> \o t \o <<"\"">>, value |-> t]
Num(t) == [json |-> t, value |-> Number(t)]
Null == [json |-> <<"n", "u", "l", "l">>, value |-> None]
Absent == [json |-> <<>>, value |-> <<>>]
Written(w) == w.json # <<>>
CnpjWritings ==
    {Str(<<"1", "2", "3", "4", "5", "6", "7", "8", "0", "0", "0", "1", "9", "9">>),
     Str(<<"0", "0", "0", "0", "0", "0", "0", "0", "0", "0", "0", "1", "9", "1">>),
     Str(<<"1", "2", ".", "3", "4", "5", ".", "6", "7", "8", "/", "0", "0", "0", "1", "-", "9", "9">>),
     Str(<<"1", "2", "3", "4", "5", "6", "7", "8", "0", "0", "0", "1", "9">>),
     Num(<<"1", "2", "3", "4", "5", "6", "7", "8", "0", "0", "0", "1", "9", "9">>),
     Null, Absent}
DateWritings ==
    {Absent,
     Str(<<"1", "0", "/", "0", "3", "/", "2", "0", "2", "3">>),
     Str(<<"e", "m", " ", "b", "r", "e", "v", "e">>),
     Num(<<"2", "0", "2", "3", "0", "3", "1", "0">>)}
NameWritings ==
    {Absent,
     Str(<<"A", "C", "M", "E", " ", "L", "T", "D", "A">>)}
ResponseForms ==
    {"json_fence", "json_fence_pretty", "fence", "bare", "fence_and_section", "truncated", "labels"}
OcrChoices ==
    {<<"S", "E", "D", "E", " ", "1", "1", ".", "2", "2", "2", ".", "3", "3", "3", "/", "0", "0", "0", "1", "-", "8", "1", " ", "J", "U", "C", "E", "S", "P">>,
     <<"P", "r", "o", "c", "u", "r", "a", "c_ced", "a_til", "o", ".", " ", "O", "u", "t", "o", "r", "g", "a", "d", "o", ":", " ", "J", "o", "a", "o", " ", "S", "i", "l", "v", "a", ".", " ", "B", "E", "T", "A", " ", "S", "/", "A">>}
\* The members the response writes, in the order it writes them.
MembersOf(input) ==
    SelectSeq(<<[key |-> <<"c", "n", "p", "j">>, label |-> <<"C", "N", "P", "J", ":", " ">>, w |-> input.cnpj],
                [key |-> <<"r", "a", "z", "a", "o", "_", "s", "o", "c", "i", "a", "l">>, label |-> <<"R", "a", "z", "a_til", "o", " ", "S", "o", "c", "i", "a", "l", ":", " ">>, w |-> input.razao_social],
                [key |-> <<"d", "a", "t", "a", "_", "a", "s", "s", "i", "n", "a", "t", "u", "r", "a">>, label |-> <<"D", "a", "t", "a", " ", "d", "e", " ", "a", "s", "s", "i", "n", "a", "t", "u", "r", "a", ":", " ">>,
                 w |-> input.data_assinatura]>>,
              LAMBDA m : Written(m.w))
ObjectText(input, open, between, close) ==
    LET members == MembersOf(input)
        texts == [i \in 1..Len(members) |->
                     <<"\"">> \o members[i].key \o <<"\"", ":", " ">> \o members[i].w.json]
    IN IF members = <<>> THEN <<"{", "}">> ELSE open \o Join(texts, between) \o close
Compact(input) == ObjectText(input, <<"{">>, <<",", " ">>, <<"}">>)
Pretty(input) == ObjectText(input, <<"{", "\n", " ", " ">>, <<",", "\n", " ", " ">>, <<"\n", "}">>)
\* The same fields as label lines; a value is written without its quotes.
LabelLines(input) ==
    LET members == SelectSeq(MembersOf(input), LAMBDA m : m.w.value # None)
    IN [i \in 1..Len(members) |->
           members[i].label \o (IF IsNumber(members[i].w.value) THEN members[i].w.json
                                ELSE members[i].w.value)]
SectionReps ==
    <<[nome |-> <<"A", "n", "a", " ", "L", "i", "m", "a">>, cargo |-> <<"D", "i", "r", "e", "t", "o", "r">>,
       regras_representacao |-> <<"I", "s", "o", "l", "a", "d", "a">>,
       data_validade_regras |-> <<"3", "1", "/", "1", "2", "/", "2", "0", "2", "5">>],
      [nome |-> <<"R", "u", "i", " ", "S", "a">>, cargo |-> <<"M", "a", "n", "d", "a", "t", "a_acu", "r", "i", "o">>]>>
SectionText == Join(<<SectionHeader>> \o ResponseLines(SectionReps, 1), <<"\n">>)
ResponseText(input) ==
    CASE input.form = "json_fence" -> JsonFence \o <<"\n">> \o Compact(input) \o <<"\n">> \o Fence
      [] input.form = "json_fence_pretty" ->
            JsonFence \o <<"\n">> \o Pretty(input) \o <<"\n">> \o Fence \o <<"\n">>
      [] input.form = "fence" -> Fence \o <<"\n">> \o Compact(input) \o <<"\n">> \o Fence
      [] input.form = "bare" -> Compact(input)
      [] input.form = "fence_and_section" ->
            JsonFence \o <<"\n">> \o Compact(input) \o <<"\n">> \o Fence \o <<"\n">> \o SectionText
      [] input.form = "truncated" ->
            JsonFence \o <<"\n">> \o SubSeq(Pretty(input), 1, Len(Pretty(input)) - 1)
      [] OTHER -> Join(LabelLines(input) \o <<SectionText>>, <<"\n">>)

InitGemini ==
    /\ pc = "gemini"
    /\ \E form \in ResponseForms, cnpj \in CnpjWritings, data \in DateWritings, razao \in NameWritings :
          gem_input = [form |-> form, cnpj |-> cnpj, data_assinatura |-> data, razao_social |-> razao]
    /\ gem_response = ResponseText(gem_input)
    /\ gem_ocr \in OcrChoices
    /\ gem_parsed = <<>> /\ gem_data = <<>>
    /\ IdleLoop /\ IdleBatch /\ IdleDoc /\ IdleDate /\ IdleCnpj /\ IdleReps /\ IdleProc /\ IdleMore

\* process_message: data_out = self._process_gemini_response(gemini_response, ocr_text);
\* an exception ends the message without a record.
ProcessGeminiResponse ==
    /\ pc = "gemini"
    /\ gem_parsed' = extract_json_from_response(gem_response)
    /\ \E data_out \in {_process_gemini_response(gem_response, gem_ocr)} :
          IF data_out = Raised
          THEN pc' = "gemini_failed" /\ gem_data' = EmptyDict
          ELSE pc' = "gemini_processed" /\ gem_data' = data_out
    /\ UNCHANGED <<gem_input, gem_response, gem_ocr, outsideGemini>>

\* process_message: _process_representatives, then augment_with_procuracao.
AddRepresentatives ==
    /\ pc = "gemini_processed"
    /\ gem_data' = augment_with_procuracao(gem_ocr, _process_representatives(gem_response, gem_data))
    /\ pc' = "gemini_augmented"
    /\ UNCHANGED <<gem_input, gem_response, gem_ocr, gem_parsed, outsideGemini>>

\* process_message: build_final_response; gem_data becomes the final record.
BuildFinalRecord ==
    /\ pc = "gemini_augmented"
    /\ \E data_out \in {build_final_response(gem_data)} :
          IF data_out = Raised
          THEN pc' = "gemini_failed" /\ gem_data' = EmptyDict
          ELSE pc' = "gemini_built" /\ gem_data' = data_out
    /\ UNCHANGED <<gem_input, gem_response, gem_ocr, gem_parsed, outsideGemini>>

NextGemini == ProcessGeminiResponse \/ AddRepresentatives \/ BuildFinalRecord
SpecGemini == InitGemini /\ [][NextGemini]_vars

\* The response is a JSON object in a ```json fence and writes cnpj as a string of
\* exactly 14 digits.
FencedWithCnpjDigits ==
    /\ gem_input.form \in {"json_fence", "json_fence_pretty"}
    /\ gem_input.cnpj.json = <<"\"">> \o gem_input.cnpj.value \o <<"\"">>
    /\ Len(gem_input.cnpj.value) = 14
    /\ IsDigits(gem_input.cnpj.value)
\* The object that the response writes: each field it writes, with its value.
WrittenObject(input) ==
    LET With(d, field, w) == IF Written(w) THEN Put(d, field, w.value) ELSE d
    IN With(With(With(EmptyDict, "cnpj", input.cnpj), "razao_social", input.razao_social),
            "data_assinatura", input.data_assinatura)
\* C3: for a response that is a JSON object in a ```json fence whose cnpj is a string
\* of exactly 14 digits, extract_json_from_response returns the object as written,
\* its cnpj being the unformatted string, and the final record built from it carries
\* the cnpj as DD.DDD.DDD/DDDD-DD with the same digits.
C3_FencedJsonCnpjFormatted ==
    (FencedWithCnpjDigits /\ pc # "gemini") =>
        /\ gem_parsed.isdict
        /\ gem_parsed.val = WrittenObject(gem_input)
        /\ gem_parsed.val.cnpj = gem_input.cnpj.value
        /\ pc = "gemini_built" =>
              /\ IsFormattedCnpj(gem_data.cnpj)
              /\ DigitsIn(gem_data.cnpj) = gem_input.cnpj.value
\* The fenced object {"cnpj": "12345678000199", ...} was parsed with its cnpj as
\* written and the final record carries 12.345.678/0001-99.
C3_Witness ==
    /\ pc = "gemini_built"
    /\ FencedWithCnpjDigits
    /\ gem_parsed.val.cnpj = <<"1", "2", "3", "4", "5", "6", "7", "8", "0", "0", "0", "1", "9", "9">>
    /\ gem_data.cnpj = <<"1", "2", ".", "3", "4", "5", ".", "6", "7", "8", "/", "0", "0", "0", "1", "-", "9", "9">>

(***************************************************************************)
(* MultiDocumentProcessor: the marked text of one document                 *)
(* A document type is written into the text as its code, one element.      *)
(***************************************************************************)
\* str(n) of a non-negative integer.
RECURSIVE IntStr(_)
IntStr(n) == IF n < 10 THEN <<DigitSeq[n + 1]>> ELSE IntStr(n \div 10) \o <<DigitSeq[(n % 10) + 1]>>
_is_accessory_document(doc_type) == doc_type \in ACCESSORY_TYPES
_is_corporate_document(doc_type) == doc_type \in CORPORATE_TYPES
\* x or default, inside an f-string: None is never written, a falsy x gives the default.
OrText(x, default) == IF Truthy(x) THEN x ELSE default
Classification(doc_type) ==
    IF _is_accessory_document(doc_type) THEN <<"A", "C", "E", "S", "S", "O_ACU", "R", "I", "O">>
    ELSE IF _is_corporate_document(doc_type) THEN <<"C", "O", "R", "P", "O", "R", "A", "T", "I", "V", "O">>
    ELSE <<"G", "E", "N", "E_ACU", "R", "I", "C", "O">>
MarkHead(index, total_docs, file_name) ==
    <<"=", "=", "=", " ", "D", "O", "C", "U", "M", "E", "N", "T", "O", " ">> \o IntStr(index) \o <<"/">> \o IntStr(total_docs) \o <<":", " ">>
    \o file_name \o <<" ", "=", "=", "=", "\n", "M", "E", "T", "A", "D", "A", "D", "O", "S", " ", "D", "O", " ", "D", "O", "C", "U", "M", "E", "N", "T", "O", ":", "\n">>
MarkBody(index, pdf_text) ==
    <<"\n", "\n", "C", "O", "N", "T", "E", "U_ACU", "D", "O", ":", "\n">> \o pdf_text \o <<"\n", "\n", "=", "=", "=", " ", "F", "I", "M", " ", "D", "O", " ", "D", "O", "C", "U", "M", "E", "N", "T", "O", " ">> \o IntStr(index) \o <<" ", "=", "=", "=", "\n">>

\* The marked text with the priority fields.
create_marked_document_text(index, total_docs, file_name, pdf_text, metadata) ==
    LET doc_type == metadata.document_type
        complementation_note ==
            IF _is_accessory_document(doc_type)
            THEN <<" ", "-", " ", "D", "O", "C", "U", "M", "E", "N", "T", "O", " ", "A", "C", "E", "S", "S", "O_ACU", "R", "I", "O", ":", " ", "U", "s", "e", " ", "p", "a", "r", "a", " ", "c", "o", "m", "p", "l", "e", "m", "e", "n", "t", "a", "r", " ", "d", "a", "d", "o", "s", ",", " ", "n", "a_til", "o", " ", "c", "o", "m", "o", " ", "f", "o", "n", "t", "e", " ", "p", "r", "i", "n", "c", "i", "p", "a", "l">>
            ELSE IF _is_corporate_document(doc_type)
            THEN <<" ", "-", " ", "D", "O", "C", "U", "M", "E", "N", "T", "O", " ", "S", "O", "C", "I", "E", "T", "A_ACU", "R", "I", "O", ":", " ", "F", "o", "n", "t", "e", " ", "p", "r", "i", "n", "c", "i", "p", "a", "l", " ", "d", "e", " ", "d", "a", "d", "o", "s", " ", "e", "s", "t", "r", "u", "t", "u", "r", "a", "i", "s">>
            ELSE <<>>
    IN MarkHead(index, total_docs, file_name)
       \o <<"-", " ", "T", "i", "p", "o", ":", " ">> \o <<doc_type>>
       \o <<"\n", "-", " ", "D", "a", "t", "a", " ", "d", "e", " ", "R", "e", "g", "i", "s", "t", "r", "o", ":", " ">> \o OrText(metadata.registration_date, <<"N", "a_til", "o", " ", "i", "d", "e", "n", "t", "i", "f", "i", "c", "a", "d", "a">>)
       \o <<"\n", "-", " ", "N", "u_acu", "m", "e", "r", "o", " ", "d", "o", " ", "D", "o", "c", "u", "m", "e", "n", "t", "o", ":", " ">> \o OrText(metadata.document_number, <<"N", "a_til", "o", " ", "i", "d", "e", "n", "t", "i", "f", "i", "c", "a", "d", "o">>)
       \o <<"\n", "-", " ", "S", "c", "o", "r", "e", " ", "d", "e", " ", "P", "r", "i", "o", "r", "i", "d", "a", "d", "e", ":", " ">> \o IntStr(metadata.priority_score) \o <<" ", "(", "m", "a", "i", "o", "r", " ", "=", " ", "m", "a", "i", "s", " ", "r", "e", "c", "e", "n", "t", "e", ")">>
       \o <<"\n", "-", " ", "C", "l", "a", "s", "s", "i", "f", "i", "c", "a", "c_ced", "a_til", "o", ":", " ">> \o Classification(doc_type) \o complementation_note
       \o MarkBody(index, pdf_text)

create_marked_document_text_no_priority(index, total_docs, file_name, pdf_text, metadata) ==
    LET doc_type == metadata.document_type
        complementation_note ==
            IF _is_accessory_document(doc_type)
            THEN <<" ", "-", " ", "D", "O", "C", "U", "M", "E", "N", "T", "O", " ", "A", "C", "E", "S", "S", "O_ACU", "R", "I", "O", ":", " ", "U", "s", "e", " ", "p", "a", "r", "a", " ", "c", "o", "m", "p", "l", "e", "m", "e", "n", "t", "a", "r", " ", "d", "a", "d", "o", "s">>
            ELSE IF _is_corporate_document(doc_type)
            THEN <<" ", "-", " ", "D", "O", "C", "U", "M", "E", "N", "T", "O", " ", "S", "O", "C", "I", "E", "T", "A_ACU", "R", "I", "O", ":", " ", "F", "o", "n", "t", "e", " ", "p", "r", "i", "n", "c", "i", "p", "a", "l", " ", "d", "e", " ", "d", "a", "d", "o", "s">>
            ELSE <<>>
    IN MarkHead(index, total_docs, file_name)
       \o <<"-", " ", "T", "i", "p", "o", ":", " ">> \o <<doc_type>>
       \o <<"\n", "-", " ", "N", "u_acu", "m", "e", "r", "o", " ", "d", "o", " ", "D", "o", "c", "u", "m", "e", "n", "t", "o", ":", " ">> \o OrText(metadata.document_number, <<"N", "a_til", "o", " ", "i", "d", "e", "n", "t", "i", "f", "i", "c", "a", "d", "o">>)
       \o <<"\n", "-", " ", "C", "l", "a", "s", "s", "i", "f", "i", "c", "a", "c_ced", "a_til", "o", ":", " ">> \o Classification(doc_type) \o complementation_note
       \o MarkBody(index, pdf_text)

\* ---- the marked text on its own ---------------------------------------------
MarkTypes == ACCESSORY_TYPES \cup CORPORATE_TYPES \cup {"DOCUMENTO_GENERICO"}
MarkNumbers == {None, <<"1", "2", "3", "/", "2", "0", "2", "3">>}
MarkDates == {None, Iso(2023, 3, 10), Iso(2024, 1, 5)}
MarkFileNames == {<<"a", "t", "a", ".", "p", "d", "f">>}
MarkTexts == {<<"A", "t", "a", " ", "d", "e", " ", "1", "0", "/", "0", "3", "/", "2", "0", "2", "3">>, <<>>}
\* The metadata extract_document_metadata gives a document with these findings.
MarkMetadata(index, file_name, doc_type, number, signature_date, registration_date) ==
    [document_index |-> index,
     file_name |-> file_name,
     document_type |-> doc_type,
     signature_date |-> signature_date,
     registration_date |-> registration_date,
     document_number |-> number,
     priority_score |-> _calculate_document_priority(signature_date, registration_date)]

InitMark ==
    /\ pc = "mark"
    /\ \E index \in 1..2, file_name \in MarkFileNames, pdf_text \in MarkTexts,
          doc_type \in MarkTypes, number \in MarkNumbers,
          sig \in MarkDates, reg \in MarkDates, sig2 \in MarkDates, reg2 \in MarkDates :
          /\ <<sig, reg>> # <<sig2, reg2>>
          /\ mark_input = [doc_index |-> index, total_docs |-> 2,
                           file_name |-> file_name, pdf_text |-> pdf_text]
          /\ mark_meta = MarkMetadata(index, file_name, doc_type, number, sig, reg)
          /\ mark_other = MarkMetadata(index, file_name, doc_type, number, sig2, reg2)
    /\ marked_text = <<>> /\ marked_other = <<>>
    /\ IdleLoop /\ IdleBatch /\ IdleDoc /\ IdleDate /\ IdleCnpj /\ IdleReps /\ IdleProc /\ IdleGemini
    /\ IdleProx /\ IdleExt

\* process_pdfs marks the document for the LLM.
MarkDocument ==
    /\ pc = "mark" /\ marked_text = <<>>
    /\ marked_text' = create_marked_document_text_no_priority(
                          mark_input.doc_index, mark_input.total_docs, mark_input.file_name,
                          mark_input.pdf_text, mark_meta)
    /\ UNCHANGED <<pc, mark_input, mark_meta, mark_other, marked_other, outsideMark>>
\* The same call on the record that differs in the priority fields.
MarkOtherDocument ==
    /\ pc = "mark" /\ marked_other = <<>>
    /\ marked_other' = create_marked_document_text_no_priority(
                           mark_input.doc_index, mark_input.total_docs, mark_input.file_name,
                           mark_input.pdf_text, mark_other)
    /\ UNCHANGED <<pc, mark_input, mark_meta, mark_other, marked_text, outsideMark>>

NextMark ==
    \/ MarkDocument
    \/ MarkOtherDocument
SpecMark == InitMark /\ [][NextMark]_vars

(***************************************************************************)
(* DateExtractor.find_most_recent_date_in_text                             *)
(***************************************************************************)
\* The (normalized, date_str) pairs of the matches of pat whose groups a..b
\* normalize_any reads as a date, in the order of the matches.
DatesOfMatches(text, pat, a, b) ==
    Bind(FindIter(pat, text),
         LAMBDA ms :
             SelectSeq([i \in 1..Len(ms) |->
                           <<normalize_any(Group(text, ms[i], a, b)), Group(text, ms[i], a, b)>>],
                       LAMBDA pair : Truthy(pair[1])))
_extract_simple_dates(text) == DatesOfMatches(text, SIMPLE_DATE_PATTERN, 1, Len(SIMPLE_DATE_PATTERN))
_extract_extended_dates(text) ==
    DatesOfMatches(text, IgnoreCase(EXTENDED_DATE_PATTERN), 1, Len(EXTENDED_DATE_PATTERN))
\* The order of the normalized dates as strings: they are ISO texts of ten
\* characters, which compare as their year, month and day do.
IsoKey(t) == IsoYear(t) * 10000 + IsoMonth(t) * 100 + IsoDay(t)
\* sort(key=x[0], reverse=True) is stable: the first of the pairs with the greatest date.
MostRecentFirst(found) ==
    found[CHOOSE i \in 1..Len(found) :
                    /\ \A j \in 1..Len(found) : IsoKey(found[j][1]) <= IsoKey(found[i][1])
                    /\ \A j \in 1..(i - 1) : IsoKey(found[j][1]) < IsoKey(found[i][1])]
\* What a call gives when it raises instead of returning: a mark no text has.
TypeError == <<"<TypeError>">>
AttributeError == <<"<AttributeError>">>
\* re.finditer(pattern, None) raises TypeError.
find_most_recent_date_in_text(text) ==
    IF text = None THEN TypeError
    ELSE Bind(_extract_simple_dates(text) \o _extract_extended_dates(text),
              LAMBDA found :
                  IF found = <<>> THEN None ELSE MostRecentFirst(found)[2])

\* ---- the extractors' public functions, each on the same input ------------------
ExtTexts ==
    {None, <<>>, <<" ", " ", " ">>, <<"t", "e", "x", "t", "o">>, <<"a", "s", "s", "i", "n", "a", "d", "o", " ", "e", "m", " ", "1", "0", "/", "0", "3", "/", "2", "0", "2", "3">>, <<"C", "N", "P", "J", ":", " ", "1", "2", "3", "4", "5", "6", "7", "8", "0", "0", "0", "1", "9", "9", "\n", "R", "a", "z", "a_til", "o", " ", "S", "o", "c", "i", "a", "l", ":", " ", "A", "C", "M", "E", " ", "S", "/", "A">>, <<"1", "0", "/", "0", "3", "/", "2", "0", "2", "3", " ", "e", " ", "5", " ", "d", "e", " ", "m", "a", "i", "o", " ", "d", "e", " ", "2", "0", "2", "4">>, <<"A", "T", "A", " ", "D", "E", " ", "A", "S", "S", "E", "M", "B", "L", "E", "I", "A", " ", "d", "e", " ", "3", "1", "/", "1", "2", "/", "2", "0", "2", "3", " ", "e", " ", "0", "1", "/", "0", "2", "/", "2", "0", "2", "3">>}
\* The lines extract_line_field searches when the input is the label.
ExtLines == <<<<"*", "*", "C", "N", "P", "J", ":", "*", "*", " ", "1", "2", ".", "3", "4", "5", ".", "6", "7", "8", "/", "0", "0", "0", "1", "-", "9", "9">>, <<"t", "e", "x", "t", "o", " ", "l", "i", "v", "r", "e">>>>
\* target.lower() of None raises AttributeError.
ExtractLineFieldOf(target) == IF target = None THEN AttributeError ELSE extract_line_field(target, ExtLines)

InitExt ==
    /\ pc = "ext"
    /\ ext_input \in ExtTexts
    /\ ext_results = <<>>
    /\ IdleLoop /\ IdleBatch /\ IdleDoc /\ IdleDate /\ IdleCnpj /\ IdleReps /\ IdleProc /\ IdleGemini
    /\ IdleProx /\ IdleMark

\* One call of a function: its result, or the exception it raised, is kept under its
\* name (a document type code as a one-element sequence).
Call(name, result) ==
    /\ pc = "ext" /\ name \notin DOMAIN ext_results
    /\ ext_results' = Put(ext_results, name, result)
    /\ UNCHANGED <<pc, ext_input, outsideExt>>
CallExtractFromOcr == Call("extract_from_ocr", extract_from_ocr(ext_input))
CallNormalize == Call("normalize", normalize(ext_input))
CallExtractRazaoSocial == Call("extract_razao_social", extract_razao_social(ext_input))
CallNormalizeAny == Call("normalize_any", normalize_any(ext_input))
CallFindMostRecentDate ==
    Call("find_most_recent_date_in_text", find_most_recent_date_in_text(ext_input))
CallIdentifyDocumentType == Call("identify_document_type", <<identify_document_type(ext_input)>>)
CallExtractLineField == Call("extract_line_field", ExtractLineFieldOf(ext_input))

NextExt ==
    \/ CallExtractFromOcr
    \/ CallNormalize
    \/ CallExtractRazaoSocial
    \/ CallNormalizeAny
    \/ CallFindMostRecentDate
    \/ CallIdentifyDocumentType
    \/ CallExtractLineField
SpecExt == InitExt /\ [][NextExt]_vars

\* C14: every public extractor function is total: for every string input, the empty
\* string and a null input included, it returns a defined value and never raises.
C14_ExtractorsAreTotal ==
    \A name \in DOMAIN ext_results : ext_results[name] \notin {TypeError, AttributeError}

\* C16: the marked text made for the LLM does not depend on the priority metadata:
\* for two document records that differ only in priority score, signature date and
\* registration date, create_marked_document_text_no_priority returns the same text
\* for the same index, total, file name and OCR text.
C16_MarkedTextHidesPriority ==
    (marked_text # <<>> /\ marked_other # <<>>) => marked_text = marked_other
\* Both records were marked, and their priority scores differ.
C16_Witness ==
    /\ marked_text # <<>> /\ marked_other # <<>>
    /\ mark_meta.priority_score # mark_other.priority_score
    /\ mark_meta.registration_date # mark_other.registration_date

\* C17: for every text that holds a bare 14-digit number and a different 14-digit
\* number right after a "CNPJ:" or "SEDE:" label, extract_from_ocr returns the
\* labelled number, wherever the two stand in the text.
C17_LabelledCnpjBeatsBare ==
    \A label \in CnpjLabels, bare \in CnpjDigitChoices, labelled \in CnpjDigitChoices,
       bare_first \in BOOLEAN :
        (/\ pc = "cnpj_extracted"
         /\ bare # labelled
         /\ cnpj_text = CnpjPairText(label, bare, labelled, bare_first))
            => cnpj_extracted = normalize(labelled)

\* C18: for every input, normalize_any returns either nothing or a text that denotes
\* a real calendar date: an input of any of the three forms (ISO, numeric, extended)
\* with an impossible day, month and year, such as day 32, is discarded.
C18_NormalizeAnyGivesRealDates ==
    "normalize_any" \in date_done => (date_norm = None \/ FromIsoFormatOk(date_norm))

\* C12: in every final record, data_assinatura is an ISO date YYYY-MM-DD or the
\* sentinel, whatever text the response gave for the signature date.
C12_SignatureDateIsoOrSentinel ==
    pc = "gemini_built" =>
        \/ gem_data.data_assinatura = DATA_NOT_AVAILABLE
        \/ IsIsoShape(gem_data.data_assinatura)

\* C13: for every response (label text, truncated JSON, a JSON object whose values
\* are not strings), interpreting the response and building the final record raise
\* no exception: the processing of a message never ends without a record.
C13_NoResponseRaises == pc # "gemini_failed"

\* C15: in every final record, each of the ten required fields is a non-blank string,
\* and cnpj is a text of the form DD.DDD.DDD/DDDD-DD or the sentinel.
C15_RequiredFieldsFilled ==
    pc = "gemini_built" =>
        /\ \A k \in 1..Len(required_fields) :
              /\ required_fields[k] \in DOMAIN gem_data
              /\ IsStr(gem_data[required_fields[k]])
              /\ Strip(gem_data[required_fields[k]]) # <<>>
        /\ gem_data.cnpj = DATA_NOT_AVAILABLE \/ IsFormattedCnpj(gem_data.cnpj)
\* A record was built from a response that writes a cnpj of 13 digits and no company
\* name, the OCR text holding no company name either: both fields hold the sentinel.
C15_Witness ==
    /\ pc = "gemini_built"
    /\ gem_input.cnpj.value = <<"1", "2", "3", "4", "5", "6", "7", "8", "0", "0", "0", "1", "9">>
    /\ ~Written(gem_input.razao_social)
    /\ gem_data.cnpj = DATA_NOT_AVAILABLE
    /\ gem_data.razao_social = DATA_NOT_AVAILABLE

(***************************************************************************)
(* DocumentExtractor.extract_document_name                                 *)
(***************************************************************************)
\* The display names of DOCUMENT_PATTERNS, in the order of the list.
DOCUMENT_NAMES ==
    <<<<"I", "n", "s", "t", "r", "u", "m", "e", "n", "t", "o", " ", "P", "a", "r", "t", "i", "c", "u", "l", "a", "r", " ", "d", "e", " ", "A", "l", "t", "e", "r", "a", "c_ced", "a_til", "o", " ", "C", "o", "n", "t", "r", "a", "t", "o", " ", "S", "o", "c", "i", "a", "l">>,
      <<"I", "n", "s", "t", "r", "u", "m", "e", "n", "t", "o", " ", "P", "a", "r", "t", "i", "c", "u", "l", "a", "r", " ", "d", "e", " ", "A", "l", "t", "e", "r", "a", "c_ced", "a_til", "o">>,
      <<"I", "n", "s", "t", "r", "u", "m", "e", "n", "t", "o", " ", "P", "a", "r", "t", "i", "c", "u", "l", "a", "r">>,
      <<"C", "o", "n", "s", "t", "i", "t", "u", "i", "c_ced", "a_til", "o", " ", "p", "o", "r", " ", "T", "r", "a", "n", "s", "f", "o", "r", "m", "a", "c_ced", "a_til", "o", " ", "d", "e", " ", "E", "m", "p", "r", "e", "s", "a_acu", "r", "i", "o", " ", "e", "m", " ", "S", "o", "c", "i", "e", "d", "a", "d", "e">>,
      <<"A", "l", "t", "e", "r", "a", "c_ced", "a_til", "o", " ", "C", "o", "n", "t", "r", "a", "t", "u", "a", "l">>,
      <<"A", "l", "t", "e", "r", "a", "c_ced", "a_til", "o", " ", "C", "o", "n", "t", "r", "a", "t", "o", " ", "S", "o", "c", "i", "a", "l">>,
      <<"A", "d", "i", "t", "a", "m", "e", "n", "t", "o", " ", "a", "o", " ", "C", "o", "n", "t", "r", "a", "t", "o", " ", "S", "o", "c", "i", "a", "l">>,
      <<"T", "e", "r", "m", "o", " ", "A", "d", "i", "t", "i", "v", "o">>,
      <<"A", "d", "i", "t", "a", "m", "e", "n", "t", "o">>,
      <<"A", "t", "a", " ", "d", "e", " ", "A", "s", "s", "e", "m", "b", "l", "e", "i", "a", " ", "G", "e", "r", "a", "l", " ", "O", "r", "d", "i", "n", "a_acu", "r", "i", "a", " ", "e", " ", "E", "x", "t", "r", "a", "o", "r", "d", "i", "n", "a_acu", "r", "i", "a">>,
      <<"A", "t", "a", " ", "d", "e", " ", "A", "s", "s", "e", "m", "b", "l", "e", "i", "a", " ", "G", "e", "r", "a", "l", " ", "E", "x", "t", "r", "a", "o", "r", "d", "i", "n", "a_acu", "r", "i", "a">>,
      <<"A", "t", "a", " ", "d", "e", " ", "A", "s", "s", "e", "m", "b", "l", "e", "i", "a", " ", "G", "e", "r", "a", "l", " ", "O", "r", "d", "i", "n", "a_acu", "r", "i", "a">>,
      <<"A", "t", "a", " ", "d", "e", " ", "A", "s", "s", "e", "m", "b", "l", "e", "i", "a", " ", "G", "e", "r", "a", "l">>,
      <<"A", "t", "a", " ", "d", "e", " ", "E", "l", "e", "i", "c_ced", "a_til", "o">>,
      <<"A", "t", "a", " ", "d", "e", " ", "R", "e", "u", "n", "i", "a_til", "o">>,
      <<"E", "s", "t", "a", "t", "u", "t", "o", " ", "S", "o", "c", "i", "a", "l">>,
      <<"C", "o", "n", "t", "r", "a", "t", "o", " ", "S", "o", "c", "i", "a", "l">>,
      <<"P", "r", "o", "c", "u", "r", "a", "c_ced", "a_til", "o">>,
      <<"C", "e", "r", "t", "i", "d", "a_til", "o", " ", "S", "i", "m", "p", "l", "i", "f", "i", "c", "a", "d", "a">>,
      <<"F", "i", "c", "h", "a", " ", "C", "a", "d", "a", "s", "t", "r", "a", "l">>>>
\* ocr.upper() with every run of whitespace made one space.
NormalizedDocumentText(ocr) == SquashSpaces(Upper(ocr))
\* The filter of the loop: the name holds the word for a procuration, as it is
\* written or in capitals.
IsProcurationName(doc_name) ==
    \/ Contains(doc_name, <<"P", "r", "o", "c", "u", "r", "a", "c_ced", "a_til", "o">>)
    \/ Contains(Upper(doc_name), <<"P", "R", "O", "C", "U", "R", "A", "C_CED", "A_TIL", "O">>)
\* The name of the first pattern the text holds among those the filter keeps.
FirstDocumentName(text_normalized, Keeps(_)) ==
    Last(<<DATA_NOT_AVAILABLE>>
         \o FirstNonEmpty([j \in 1..Len(DOCUMENT_PATTERNS) |->
                IF /\ ReSearch(DOCUMENT_PATTERNS[j].pat, text_normalized) # <<>>
                   /\ Keeps(DOCUMENT_NAMES[j])
                THEN <<DOCUMENT_NAMES[j]>> ELSE <<>>]))
\* A variant of the loop that returns the name of the first pattern found, whatever it is.
FirstNameFound(ocr) ==
    IF ~Truthy(ocr) THEN DATA_NOT_AVAILABLE
    ELSE FirstDocumentName(NormalizedDocumentText(ocr), LAMBDA doc_name : TRUE)
extract_document_name(ocr) ==
    IF ~Truthy(ocr) THEN DATA_NOT_AVAILABLE
    ELSE FirstDocumentName(NormalizedDocumentText(ocr), LAMBDA doc_name : ~IsProcurationName(doc_name))

\* ---- the name and the type of one document ------------------------------------
DocumentHeadings ==
    {<<>>,
     <<"P", "r", "o", "c", "u", "r", "a", "c_ced", "a_til", "o">>,
     <<"I", "N", "S", "T", "R", "U", "M", "E", "N", "T", "O", " ", "P", "U_ACU", "B", "L", "I", "C", "O", " ", "D", "E", " ", "P", "R", "O", "C", "U", "R", "A", "C_CED", "A_TIL", "O">>,
     <<"C", "e", "r", "t", "i", "d", "a_til", "o">>,
     <<"c", "o", "n", "t", "r", "a", "t", "o", " ", " ", "s", "o", "c", "i", "a", "l">>,
     <<"A", "t", "a", " ", "d", "e", "\n", "E", "l", "e", "i", "c_ced", "a_til", "o">>,
     <<"F", "i", "c", "h", "a", " ", "C", "a", "d", "a", "s", "t", "r", "a", "l">>,
     <<"T", "e", "r", "m", "o", " ", "a", "d", "i", "t", "i", "v", "o">>,
     <<"t", "e", "x", "t", "o">>}
\* A text with one or two headings.
DocumentTexts ==
    {first \o (IF second = <<>> THEN <<>> ELSE <<" ", "e", " ">> \o second) :
        first \in DocumentHeadings, second \in DocumentHeadings}

InitDocName ==
    /\ pc = "doc_name"
    /\ ext_input \in DocumentTexts
    /\ ext_results = <<>>
    /\ IdleLoop /\ IdleBatch /\ IdleDoc /\ IdleDate /\ IdleCnpj /\ IdleReps /\ IdleProc /\ IdleGemini
    /\ IdleProx /\ IdleMark

IdentifyDocumentType ==
    /\ pc = "doc_name" /\ "identify_document_type" \notin DOMAIN ext_results
    /\ ext_results' = Put(ext_results, "identify_document_type", <<identify_document_type(ext_input)>>)
    /\ UNCHANGED <<pc, ext_input, outsideExt>>
ExtractDocumentName ==
    /\ pc = "doc_name" /\ "extract_document_name" \notin DOMAIN ext_results
    /\ ext_results' = Put(ext_results, "extract_document_name", extract_document_name(ext_input))
    /\ UNCHANGED <<pc, ext_input, outsideExt>>

NextDocName ==
    \/ IdentifyDocumentType
    \/ ExtractDocumentName
SpecDocName == InitDocName /\ [][NextDocName]_vars

\* The rules of the list that match a text.
MatchingRules(text_normalized) ==
    {k \in 1..Len(DOCUMENT_PATTERNS) : ReSearch(DOCUMENT_PATTERNS[k].pat, text_normalized) # <<>>}
ProcurationRule == CHOOSE k \in 1..Len(DOCUMENT_NAMES) : IsProcurationName(DOCUMENT_NAMES[k])
\* The type and the name the first of these rules give.
TypeOfFirstRule(rules) ==
    IF rules = {} THEN "DOCUMENTO_GENERICO" ELSE DOCUMENT_PATTERNS[Min(rules)].doc_type
NameOfFirstRule(rules) ==
    IF rules = {} THEN DATA_NOT_AVAILABLE ELSE DOCUMENT_NAMES[Min(rules)]
ResultsFollowRules(rules) ==
    /\ "identify_document_type" \in DOMAIN ext_results =>
          ext_results["identify_document_type"] = <<TypeOfFirstRule(rules)>>
    /\ "extract_document_name" \in DOMAIN ext_results =>
          /\ ~IsProcurationName(ext_results["extract_document_name"])
          /\ ext_results["extract_document_name"] = NameOfFirstRule(rules \ {ProcurationRule})
ProcurationThenCertificate(rules) == rules # {} /\ Min(rules) = ProcurationRule

\* C22: identify_document_type returns the type code of the first rule of the ordered
\* list that matches (the generic code when none matches, also for the empty text);
\* extract_document_name walks the same list but never returns the procuration name:
\* when the first matching rule is the procuration rule the type is PROCURACAO and the
\* name is that of the next matching rule, or the sentinel if there is none.
C22_NameSkipsProcuration ==
    pc = "doc_name" => ResultsFollowRules(MatchingRules(NormalizedDocumentText(ext_input)))
\* A text whose first matching rule is the procuration rule and that also holds a
\* certificate heading: the type is PROCURACAO and the name is the certificate's.
C22_Witness ==
    /\ pc = "doc_name"
    /\ DOMAIN ext_results = {"identify_document_type", "extract_document_name"}
    /\ ext_results["identify_document_type"] = <<"PROCURACAO">>
    /\ ext_results["extract_document_name"] = DOCUMENT_NAMES[ProcurationRule + 1]
    /\ ProcurationThenCertificate(MatchingRules(NormalizedDocumentText(ext_input)))

(***************************************************************************)
(* FieldExtractor.extract_block_field on the lines of a response            *)
(***************************************************************************)
BlockTarget == <<"C", "o", "t", "a", "s", ":">>
\* The line that holds the label, with and without bold marks and a value on the line.
BlockAnchors ==
    {<<"C", "o", "t", "a", "s", ":">>, <<"*", "*", "c", "o", "t", "a", "s", ":", "*", "*", " ", "5", "0", "%">>, <<" ", "C", "O", "T", "A", "S", ":", " ", " ", "x", " ">>}
\* The lines that may follow: empty, plain, ending with a colon, bold, only bold marks.
BlockLineChoices ==
    {<<>>, <<"b">>, <<"N", "o", "m", "e", ":">>, <<"*", "*", "S", "e", "d", "e", ":", "*", "*">>, <<" ", "c", " ">>, <<"*", "*">>, <<"d", ":", " ", "e">>}
MaxBlockLines == 3
BlockTails == UNION {[1..n -> BlockLineChoices] : n \in 0..MaxBlockLines}
BlockHeads == {<<>>, <<<<"N", "o", "m", "e", ":", " ", "y">>>>}
BlockInputs == {head \o <<anchor>> \o tail :
                   head \in BlockHeads, anchor \in BlockAnchors, tail \in BlockTails}

InitBlock ==
    /\ pc = "block"
    /\ ext_input \in BlockInputs
    /\ ext_results = <<>>
    /\ IdleLoop /\ IdleBatch /\ IdleDoc /\ IdleDate /\ IdleCnpj /\ IdleReps /\ IdleProc /\ IdleGemini
    /\ IdleProx /\ IdleMark

ExtractLineField ==
    /\ pc = "block" /\ "extract_line_field" \notin DOMAIN ext_results
    /\ ext_results' = Put(ext_results, "extract_line_field", extract_line_field(BlockTarget, ext_input))
    /\ UNCHANGED <<pc, ext_input, outsideExt>>
ExtractBlockField ==
    /\ pc = "block" /\ "extract_block_field" \notin DOMAIN ext_results
    /\ ext_results' = Put(ext_results, "extract_block_field", extract_block_field(BlockTarget, ext_input))
    /\ UNCHANGED <<pc, ext_input, outsideExt>>

NextBlock ==
    \/ ExtractLineField
    \/ ExtractBlockField
SpecBlock == InitBlock /\ [][NextBlock]_vars

\* The first line after the anchor that ends the block: it ends with ':' once the bold
\* marks are stripped and it is not the line right after the anchor.
BlockEnd(lines, anchor) ==
    Min({j \in (anchor + 2)..Len(lines) : EndsWith(_normalize_line(lines[j]), <<":">>)}
        \cup {Len(lines) + 1})
\* The value on the anchor line, when there is one.
InlineRemainder(lines, anchor, target) ==
    LET inline_value == Strip(SliceFrom(_normalize_line(lines[anchor]), Len(target)))
    IN IF inline_value = <<>> THEN <<>> ELSE <<inline_value>>
\* The lines between the anchor and the end of the block that pass the test NonEmpty,
\* each without its bold marks and surrounding spaces.
CollectedLines(lines, anchor, target, NonEmpty(_)) ==
    LET kept == SelectSeq([j \in 1..(BlockEnd(lines, anchor) - anchor - 1) |-> anchor + j],
                          LAMBDA j : NonEmpty(lines[j]))
    IN InlineRemainder(lines, anchor, target)
       \o [k \in 1..Len(kept) |-> _normalize_line(lines[kept[k]])]
\* A line is not empty when it holds more than white space; its text is not empty when
\* something is left of it without the bold marks.
LineNotEmpty(line) == Strip(line) # <<>>
TextNotEmpty(line) == _normalize_line(line) # <<>>
\* The text the block is said to give: the collected lines joined with newlines.
JoinedBlock(lines, target, NonEmpty(_)) ==
    IF AnchorLine(target, lines) = 0 THEN <<>>
    ELSE Join(CollectedLines(lines, AnchorLine(target, lines), target, NonEmpty), <<"\n">>)

\* C23: extract_block_field starts at the first line whose bold-stripped text starts,
\* whatever the case, with the label; it collects the value on that line and then every
\* following non-empty line until a line that ends with ':' and is not the line right
\* after the anchor; that line and all after it are left out, a line ending with ':'
\* right after the anchor is collected, and the result is the collected lines joined
\* with newlines in order. The formula accepts either reading of "non-empty line".
C23_BlockIsCollectedLines ==
    (pc = "block" /\ "extract_block_field" \in DOMAIN ext_results) =>
        \/ ext_results["extract_block_field"] = JoinedBlock(ext_input, BlockTarget, LineNotEmpty)
        \/ ext_results["extract_block_field"] = JoinedBlock(ext_input, BlockTarget, TextNotEmpty)

\* C23 as amended: the result of extract_block_field is the collected lines (the value on
\* the anchor line, then every following line that holds more than white space, without
\* its bold marks, up to the first line that ends with ':' and is not right after the
\* anchor) joined with newlines in order, and the joined text is trimmed at both ends.
C23_BlockIsTrimmedJoin ==
    (pc = "block" /\ "extract_block_field" \in DOMAIN ext_results) =>
        ext_results["extract_block_field"]
            = Strip(JoinedBlock(ext_input, BlockTarget, LineNotEmpty))
\* A block whose first line after the anchor ends with ':' and is collected, and that a
\* later line ending with ':' closes.
C23_Witness ==
    /\ pc = "block" /\ "extract_block_field" \in DOMAIN ext_results
    /\ AnchorLine(BlockTarget, ext_input) > 0
    /\ LET anchor == AnchorLine(BlockTarget, ext_input)
       IN /\ BlockEnd(ext_input, anchor) = anchor + 3
          /\ BlockEnd(ext_input, anchor) <= Len(ext_input)
          /\ EndsWith(_normalize_line(ext_input[anchor + 1]), <<":">>)
          /\ ext_results["extract_block_field"]
                = _normalize_line(ext_input[anchor + 1]) \o <<"\n">> \o _normalize_line(ext_input[anchor + 2])
          /\ _normalize_line(ext_input[anchor + 2]) # <<>>

(***************************************************************************)
(* RepresentativeExtractor on lines in any order                            *)
(***************************************************************************)
\* The lines that may follow the header of the section: the line that opens a
\* representative, lines of fields and a line of no field.
ParseLineChoices ==
    {<<"R", "e", "p", "r", "e", "s", "e", "n", "t", "a", "n", "t", "e", " ", "1", ":">>, <<"N", "o", "m", "e", ":", " ", "A", "n", "a">>, <<"N", "o", "m", "e", ":", " ", "R", "u", "i">>, <<"C", "a", "r", "g", "o", ":", " ", "D", "i", "r", "e", "t", "o", "r">>, <<"t", "e", "x", "t", "o">>}
MaxParseLines == 5
ParseInputs ==
    {<<SectionHeader>> \o tail : tail \in UNION {[1..n -> ParseLineChoices] : n \in 0..MaxParseLines}}

InitParse ==
    /\ pc = "parse"
    /\ rep_lines \in ParseInputs
    /\ rep_input = <<>> /\ rep_detailed = <<>> /\ rep_count = 0 /\ rep_refiltered = <<>>
    /\ val_result = <<>> /\ val_again = <<>>
    /\ IdleLoop /\ IdleBatch /\ IdleDoc /\ IdleDate /\ IdleCnpj /\ IdleProc /\ IdleGemini /\ IdleMore

\* extract_detailed_representatives on the lines, and the count of its result.
ParseRepresentatives ==
    /\ pc = "parse"
    /\ rep_detailed' = extract_detailed_representatives(rep_lines)
    /\ rep_count' = calculate_count(rep_detailed')
    /\ pc' = "parsed"
    /\ UNCHANGED <<rep_input, rep_lines, rep_refiltered, val_result, val_again, outsideReps>>

NextParse == ParseRepresentatives
SpecParse == InitParse /\ [][NextParse]_vars

\* Line i opens a representative.
OpensRecord(lines, i) == StartsWith(Strip(lines[i]), <<"R", "e", "p", "r", "e", "s", "e", "n", "t", "a", "n", "t", "e", " ">>)
\* The field a line sets, "" for a line of no field.
FieldOfLine(line) ==
    LET hits == {k \in 1..Len(field_mappings) : StartsWith(Strip(line), field_mappings[k][1])}
    IN IF hits = {} THEN "" ELSE field_mappings[Min(hits)][2]
ValueOfLine(line) ==
    LET k == Min({h \in 1..Len(field_mappings) : StartsWith(Strip(line), field_mappings[h][1])})
    IN Strip(SliceFrom(Strip(line), Len(field_mappings[k][1])))
\* The lines that open a representative after the header of the section, in order.
OpeningLines(lines, header) ==
    SelectSeq([n \in 1..(Len(lines) - header) |-> header + n], LAMBDA i : OpensRecord(lines, i))
\* The record of the representative line i opens: the lines of fields between i and
\* the next opening line (or the end), the last line of a field giving its value.
RecordOpenedAt(lines, i) ==
    LET later == {j \in (i + 1)..Len(lines) : OpensRecord(lines, j)}
        close == IF later = {} THEN Len(lines) + 1 ELSE Min(later)
        own == {j \in (i + 1)..(close - 1) : FieldOfLine(lines[j]) # ""}
    IN [f \in {FieldOfLine(lines[j]) : j \in own} |->
           ValueOfLine(lines[Max({j \in own : FieldOfLine(lines[j]) = f})])]
\* The records of the opening lines, in the order of these lines, without the empty ones.
RecordsInOrder(lines, header) ==
    LET opening == OpeningLines(lines, header)
    IN SelectSeq([k \in 1..Len(opening) |-> RecordOpenedAt(lines, opening[k])],
                 LAMBDA r : DOMAIN r # {})

\* C24: for every sequence of lines after the "representantes legais" header, each line
\* of a recognised field goes to the record opened by the most recent "Representante "
\* line before it and to no other record, lines of fields before the first such line
\* are ignored, each "Representante " line closes the record then open, the end of the
\* input closes the last one, and the closed records are emitted (filled, filtered and
\* without duplicates) in the order of their opening lines.
C24_FieldsGoToTheOpenRecord ==
    pc = "parsed" =>
        rep_detailed = validate_and_filter(
                           RecordsInOrder(rep_lines, _find_representatives_section_start(rep_lines)))
\* A line of a field before the first opening line, then two representatives: two
\* records come out, in the order of their opening lines.
C24_Witness ==
    /\ pc = "parsed"
    /\ rep_lines = <<SectionHeader, <<"N", "o", "m", "e", ":", " ", "R", "u", "i">>, <<"R", "e", "p", "r", "e", "s", "e", "n", "t", "a", "n", "t", "e", " ", "1", ":">>, <<"N", "o", "m", "e", ":", " ", "A", "n", "a">>,
                     <<"R", "e", "p", "r", "e", "s", "e", "n", "t", "a", "n", "t", "e", " ", "1", ":">>, <<"N", "o", "m", "e", ":", " ", "R", "u", "i">>>>
    /\ Len(rep_detailed) = 2
    /\ rep_detailed[1].nome = <<"A", "n", "a">> /\ rep_detailed[2].nome = <<"R", "u", "i">>

\* The separator the entries of representantes_legais are said to have.
SeparatorOfEntries(existing) == IF Contains(existing, <<"\n">>) THEN <<"\n">> ELSE <<",", " ">>
\* The existing names (when there are any) and the attorneys, each entry apart from the
\* one before by that separator.
EntriesApart(existing, nomes) ==
    Join((IF existing = <<>> THEN <<>> ELSE <<existing>>)
         \o [i \in 1..Len(nomes) |-> nomes[i] \o ProcuradorSuffix],
         SeparatorOfEntries(existing))

\* C25: when the augmentation appends one or more attorneys to representantes_legais,
\* every appended entry "<name> (Procurador)" is separated from the entry before it (an
\* existing name or another attorney) by a newline if the existing text holds a
\* newline and by comma-space otherwise, also when the existing text is empty and
\* several attorneys are appended.
C25_AttorneysAreSeparated ==
    (/\ pc = "proc_done"
     /\ _has_procuracao(proc_ocr)
     /\ _extract_attorney_names(proc_ocr) # <<>>) =>
        proc_data_out.representantes_legais
            = EntriesApart(proc_data_in.representantes_legais, _extract_attorney_names(proc_ocr))

(***************************************************************************)
(* GeminiResponseProcessor.apply_fallbacks on a record                      *)
(***************************************************************************)
\* What the record holds for a field before the fallbacks: nothing, the empty text,
\* the sentinel, or a value.
FieldNotWritten == <<"<absent>">>
FallbackIncoming(value) == {FieldNotWritten, <<>>, DATA_NOT_AVAILABLE, value}
FallbackRecord(junta, cnpj, razao, natureza) ==
    LET With(d, field, value) == IF value = FieldNotWritten THEN d ELSE Put(d, field, value)
    IN With(With(With(With([endereco |-> <<"R", "u", "a", " ", "A", ",", " ", "1">>], "junta_comercial", junta),
                           "cnpj", cnpj), "razao_social", razao), "natureza_juridica", natureza)
FallbackOcrChoices == OcrChoices \cup {<<"t", "e", "x", "t", "o", " ", "s", "e", "m", " ", "d", "a", "d", "o", "s">>}

InitFallback ==
    /\ pc = "fallback"
    /\ \E junta \in FallbackIncoming(<<"J", "u", "n", "t", "a", " ", "C", "o", "m", "e", "r", "c", "i", "a", "l", " ", "d", "o", " ", "E", "s", "t", "a", "d", "o", " ", "d", "o", " ", "R", "i", "o", " ", "d", "e", " ", "J", "a", "n", "e", "i", "r", "o", " ", "(", "J", "U", "C", "E", "R", "J", "A", ")">>),
          cnpj \in FallbackIncoming(<<"1", "2", "3", "4", "5", "6", "7", "8", "0", "0", "0", "1", "9", "9">>),
          razao \in FallbackIncoming(<<"A", "C", "M", "E", " ", "L", "T", "D", "A">>),
          natureza \in {<<>>, DATA_NOT_AVAILABLE, <<"E", "I", "R", "E", "L", "I">>} :
          gem_parsed = FallbackRecord(junta, cnpj, razao, natureza)
    /\ gem_ocr \in FallbackOcrChoices
    /\ gem_input = <<>> /\ gem_response = <<>> /\ gem_data = <<>>
    /\ IdleLoop /\ IdleBatch /\ IdleDoc /\ IdleDate /\ IdleCnpj /\ IdleReps /\ IdleProc /\ IdleMore

\* _process_gemini_response: data_out = self.gemini_processor.apply_fallbacks(...)
ApplyFallbacks ==
    /\ pc = "fallback"
    /\ gem_data' = apply_fallbacks(gem_parsed, gem_ocr)
    /\ pc' = "fallback_done"
    /\ UNCHANGED <<gem_input, gem_response, gem_ocr, gem_parsed, outsideGemini>>

NextFallback == ApplyFallbacks
SpecFallback == InitFallback /\ [][NextFallback]_vars

\* A value that stands for no value: absent, empty, or the sentinel.
NoValue(data_out, field) ==
    field \notin DOMAIN data_out \/ data_out[field] = <<>> \/ data_out[field] = DATA_NOT_AVAILABLE
\* What the extractor of a field finds, <<>> when it finds nothing.
FoundFor(field, ocr, razao_social) ==
    LET found == CASE field = "junta_comercial" -> extract_junta_comercial(ocr)
                   [] field = "cnpj" -> extract_from_ocr(ocr)
                   [] field = "razao_social" -> extract_razao_social(ocr)
                   [] OTHER -> extract_natureza_juridica(razao_social)
    IN IF Truthy(found) /\ found # DATA_NOT_AVAILABLE THEN found ELSE <<>>
FallbackFields == <<"junta_comercial", "cnpj", "razao_social", "natureza_juridica">>
\* The field holds the value found exactly when it had no value and one was found;
\* else it is as it was (a field with no value may move between the forms of no value).
FallbackAsSaid(before, after, field, found) ==
    IF NoValue(before, field) /\ found # <<>> THEN field \in DOMAIN after /\ after[field] = found
    ELSE IF NoValue(before, field) THEN NoValue(after, field)
    ELSE field \in DOMAIN after /\ after[field] = before[field]

\* C26: apply_fallbacks puts the value derived from the OCR text in junta_comercial,
\* cnpj, razao_social or natureza_juridica exactly when the incoming value of the field
\* is empty or the sentinel and the extractor finds a value; a field that holds a real
\* value is left as it is, and no other key of the record changes.
C26_FallbackFillsEmptyAndSentinel ==
    pc = "fallback_done" =>
        /\ \A k \in 1..Len(FallbackFields) :
              FallbackAsSaid(gem_parsed, gem_data, FallbackFields[k],
                             FoundFor(FallbackFields[k], gem_ocr, Get(gem_data, "razao_social", <<>>)))
        /\ \A field \in DOMAIN gem_data \ {FallbackFields[k] : k \in 1..Len(FallbackFields)} :
              field \in DOMAIN gem_parsed /\ gem_data[field] = gem_parsed[field]

(***************************************************************************)
(* process_message on responses that write the representatives              *)
(***************************************************************************)
\* What the block of the representative writes of a pair of fields.
PairWritings == {"both", "origin", "principal", "none"}
PrincipalValues == <<<<"I", "s", "o", "l", "a", "d", "a">>, <<"I", "s", "o", "l", "a", "d", "a">>, <<"3", "1", "/", "1", "2", "/", "2", "0", "2", "5">>>>
OriginValue == <<"A", "r", "t", ".", " ", "5">>
WithPair(r, j, writing) ==
    LET p == IF writing \in {"both", "principal"}
             THEN Put(r, field_pairs[j][1], PrincipalValues[j]) ELSE r
    IN IF writing \in {"both", "origin"} THEN Put(p, field_pairs[j][2], OriginValue) ELSE p
WrittenBlock(writings) ==
    WithPair(WithPair(WithPair([nome |-> <<"A", "n", "a", " ", "L", "i", "m", "a">>, cargo |-> <<"D", "i", "r", "e", "t", "o", "r">>],
                               1, writings[1]), 2, writings[2]), 3, writings[3])
\* A response of label lines with the section of one representative.
SectionResponse(writings) ==
    Join(<<<<"C", "N", "P", "J", ":", " ", "1", "2", "3", "4", "5", "6", "7", "8", "0", "0", "0", "1", "9", "9">>, SectionHeader>> \o BlockLines(WrittenBlock(writings), 1), <<"\n">>)
\* A response that is a JSON object with values for the representatives' fields, with
\* no section of lines or with one after it.
JsonWithRepresentatives ==
    JsonFence \o <<"\n">>
    \o <<"{", "\"", "c", "n", "p", "j", "\"", ":", " ", "\"", "1", "2", "3", "4", "5", "6", "7", "8", "0", "0", "0", "1", "9", "9", "\"", ",", " ", "\"", "q", "u", "a", "n", "t", "i", "d", "a", "d", "e", "_", "r", "e", "p", "r", "e", "s", "e", "n", "t", "a", "n", "t", "e", "s", "\"", ":", " ", "5", ",", " ", "\"", "r", "e", "p", "r", "e", "s", "e", "n", "t", "a", "n", "t", "e", "s", "_", "l", "e", "g", "a", "i", "s", "\"", ":", " ", "\"", "E", "v", "a", " ", "P", "a", "z", "\"", "}">>
    \o <<"\n">> \o Fence
JsonThenSection ==
    JsonWithRepresentatives \o <<"\n">> \o SectionResponse([j \in 1..3 |-> "none"])
RecordInputs ==
    {[form |-> "labels", writings |-> w, text |-> SectionResponse(w)] : w \in [1..3 -> PairWritings]}
    \cup {[form |-> "json", writings |-> <<>>, text |-> JsonWithRepresentatives],
          [form |-> "json_and_section", writings |-> <<>>, text |-> JsonThenSection]}

InitRecord ==
    /\ pc = "gemini"
    /\ gem_input \in RecordInputs
    /\ gem_response = gem_input.text
    /\ gem_ocr \in OcrChoices
    /\ gem_parsed = <<>> /\ gem_data = <<>>
    /\ IdleLoop /\ IdleBatch /\ IdleDoc /\ IdleDate /\ IdleCnpj /\ IdleReps /\ IdleProc /\ IdleMore

\* process_message: data_out = self._process_representatives(gemini_response, data_out)
ProcessRepresentativesStep ==
    /\ pc = "gemini_processed"
    /\ gem_data' = _process_representatives(gem_response, gem_data)
    /\ pc' = "reps_processed"
    /\ UNCHANGED <<gem_input, gem_response, gem_ocr, gem_parsed, outsideGemini>>
\* process_message: data_out = self.procuracao_processor.augment_with_procuracao(...)
AugmentStep ==
    /\ pc = "reps_processed"
    /\ gem_data' = augment_with_procuracao(gem_ocr, gem_data)
    /\ pc' = "gemini_augmented"
    /\ UNCHANGED <<gem_input, gem_response, gem_ocr, gem_parsed, outsideGemini>>

NextRecord ==
    \/ ProcessGeminiResponse
    \/ ProcessRepresentativesStep
    \/ AugmentStep
    \/ BuildFinalRecord
SpecRecord == InitRecord /\ [][NextRecord]_vars

\* In a representative, the origin of a principal field that is the sentinel is the
\* sentinel.
OriginFollowsPrincipal(rep) ==
    \A j \in 1..Len(field_pairs) :
        Get(rep, field_pairs[j][1], <<>>) = DATA_NOT_AVAILABLE
            => Get(rep, field_pairs[j][2], <<>>) = DATA_NOT_AVAILABLE

\* C27: in every final record of process_message, each entry of
\* representantes_detalhados has, for each of the pairs (tipo_assinatura,
\* origem_assinatura), (regras_representacao, origem_regras_representacao),
\* (data_validade_regras, origem_data_validade), the sentinel in the origin field when
\* the principal field is the sentinel, also when the block of the response wrote the
\* origin line and not the principal line.
C27_OriginIsSentinelWithPrincipal ==
    pc = "gemini_built" =>
        \A i \in 1..Len(gem_data.representantes_detalhados) :
            OriginFollowsPrincipal(gem_data.representantes_detalhados[i])

\* The names a text of names holds, one per line.
NamesIn(representantes_legais) ==
    IF representantes_legais = <<>> THEN <<>> ELSE SplitChar(representantes_legais, "\n")
\* The representatives the section of lines of a response writes: its records in the
\* order of their opening lines, filled and filtered; none when there is no section.
SectionRepresentatives(response_text) ==
    LET lines == SplitChar(response_text, "\n")
        header == _find_representatives_section_start(lines)
    IN IF header = NoIndex THEN <<>> ELSE validate_and_filter(RecordsInOrder(lines, header))

\* C28: after _process_representatives, quantidade_representantes equals the length of
\* representantes_detalhados and the number of names in representantes_legais, and
\* these three and poderes_e_representacao come from the "representantes legais"
\* section of lines of the response alone: what a parsed JSON response held for them
\* is overwritten, and a response with no such section gives an empty list and 0.
C28_RepresentativesComeFromSection ==
    pc = "reps_processed" =>
        LET section == SectionRepresentatives(gem_response)
        IN /\ gem_data.representantes_detalhados = section
           /\ gem_data.quantidade_representantes = Len(section)
           /\ NamesIn(gem_data.representantes_legais) = [i \in 1..Len(section) |-> section[i].nome]
           /\ gem_data.poderes_e_representacao = consolidate_poderes_representacao(section)
\* A JSON response that gives a count and a name and has no section of lines: the
\* list is empty and the count is 0.
C28_Witness ==
    /\ pc = "reps_processed"
    /\ gem_input.form = "json"
    /\ gem_parsed.isdict
    /\ Get(gem_parsed.val, "quantidade_representantes", None) = Number(<<"5">>)
    /\ Get(gem_parsed.val, "representantes_legais", None) = <<"E", "v", "a", " ", "P", "a", "z">>
    /\ _find_representatives_section_start(SplitChar(gem_response, "\n")) = NoIndex
    /\ gem_data.representantes_detalhados = <<>>
    /\ gem_data.quantidade_representantes = 0
    /\ gem_data.representantes_legais = <<>>

(***************************************************************************)
(* CoreProcessor.process_loop and SQSService                                *)
(***************************************************************************)
MaxMessages == 2
Messages == 1..MaxMessages
outsideLoop == <<batchVars, docVars, textVars>>
\* What a call of the SQS client does: it succeeds, it raises a BotoCoreError (which the
\* methods of SQSService catch and print), or it raises another exception (which they
\* let through).
ClientOutcomes == {"done", "BotoCoreError", "other exception"}
\* SQSService.send_message: the queue after the call.
send_message(queue, message, outcome) == IF outcome = "done" THEN queue \cup {message} ELSE queue
\* SQSService.delete_message: the input queue after the call.
delete_message(queue, message, outcome) == IF outcome = "done" THEN queue \ {message} ELSE queue

InitLoop ==
    /\ pc = "loop"
    /\ message_kinds \in [Messages -> {"valid", "invalid"}]
    /\ input_queue = Messages
    /\ output_queue = {} /\ dlq = {}
    /\ msg = 0 /\ success = FALSE
    /\ IdleBatch /\ IdleDoc /\ IdleText

\* process_loop: msg = self.sqs_service.receive_message() gives a message of the queue;
\* the message stays on the queue. (With no message the loop sleeps and starts again.)
ReceiveMessage ==
    /\ pc = "loop"
    /\ \E m \in input_queue : msg' = m
    /\ pc' = "received"
    /\ UNCHANGED <<message_kinds, input_queue, output_queue, dlq, success, outsideLoop>>
\* process_message of a message that validate_sqs_message refuses: send_to_dlq, then
\* return True; an exception that send_message lets through ends in return False.
ProcessInvalidMessage ==
    /\ pc = "received" /\ message_kinds[msg] = "invalid"
    /\ \E outcome \in ClientOutcomes :
          /\ dlq' = send_message(dlq, msg, outcome)
          /\ success' = (outcome # "other exception")
    /\ pc' = "processed"
    /\ UNCHANGED <<message_kinds, input_queue, output_queue, msg, outsideLoop>>
\* process_message of a valid message: return False when the PDFs or the LLM give
\* nothing or a step raises; else send_message of the record, then return True; an
\* exception that send_message lets through ends in return False.
ProcessValidMessage ==
    /\ pc = "received" /\ message_kinds[msg] = "valid"
    /\ \E built \in BOOLEAN, outcome \in ClientOutcomes :
          IF ~built THEN success' = FALSE /\ output_queue' = output_queue
          ELSE /\ output_queue' = send_message(output_queue, msg, outcome)
               /\ success' = (outcome # "other exception")
    /\ pc' = "processed"
    /\ UNCHANGED <<message_kinds, input_queue, dlq, msg, outsideLoop>>
\* process_loop: if success, delete_message(msg['ReceiptHandle']); an exception it lets
\* through is caught by the loop.
DeleteProcessedMessage ==
    /\ pc = "processed" /\ success
    /\ \E outcome \in ClientOutcomes : input_queue' = delete_message(input_queue, msg, outcome)
    /\ pc' = "loop" /\ msg' = 0 /\ success' = FALSE
    /\ UNCHANGED <<message_kinds, output_queue, dlq, outsideLoop>>
\* process_loop: else the message is left on the queue.
LeaveFailedMessage ==
    /\ pc = "processed" /\ ~success
    /\ pc' = "loop" /\ msg' = 0
    /\ UNCHANGED <<message_kinds, input_queue, output_queue, dlq, success, outsideLoop>>

NextLoop ==
    \/ ReceiveMessage
    \/ ProcessInvalidMessage
    \/ ProcessValidMessage
    \/ DeleteProcessedMessage
    \/ LeaveFailedMessage
SpecLoop == InitLoop /\ [][NextLoop]_vars

\* The record of a valid message reached the output queue; an invalid message reached
\* the dead-letter queue.
Delivered(message) ==
    IF message_kinds[message] = "valid" THEN message \in output_queue ELSE message \in dlq

\* C29: in the receive/process/delete loop a message is deleted from the input queue
\* only if its output record was delivered to the output queue or, for an invalid
\* message, the message was delivered to the dead-letter queue: whatever sends fail, a
\* message whose send failed stays on the input queue and is never deleted without a
\* delivered record.
C29_DeletedOnlyIfDelivered ==
    \A message \in DOMAIN message_kinds :
        message \notin input_queue => Delivered(message)

\* The place of a document in documents_by_priority of the final response.
RankOf(file_name) ==
    CHOOSE k \in DOMAIN json_response.priority_analysis.documents_by_priority :
        json_response.priority_analysis.documents_by_priority[k] = file_name
HasUsableDate(doc) == Truthy(doc.registration_date) \/ Truthy(doc.signature_date)

\* C21: in the priority ordering of the documents of a batch, every document with no
\* usable date has priority score 0 and ranks after every document that has a
\* registration or signature date, whatever that date is (dates before 1970
\* included); undated documents tie with each other.
C21_UndatedDocumentsRankLast ==
    (pc = "done" /\ "priority_analysis" \in DOMAIN json_response) =>
        \A i \in DOMAIN processed_files :
            ~HasUsableDate(processed_files[i]) =>
                /\ processed_files[i].priority_score = 0
                /\ \A j \in DOMAIN processed_files :
                      HasUsableDate(processed_files[j]) =>
                          RankOf(processed_files[j].file_name) < RankOf(processed_files[i].file_name)

\* C30: in every final output, processed_documents of document_metadata equals the
\* number of documents whose text was extracted and passed on (the length of the
\* processed-files list), is_multiple_documents and processing_type "LOTE" hold
\* exactly when more than one document was processed, and the priority, changes and
\* conflict blocks are present only in that case, also when a download fails.
C30_MetadataCountsProcessedFiles ==
    pc = "done" =>
        /\ json_response.processed_documents = Len(processed_files)
        /\ json_response.is_multiple_documents <=> Len(processed_files) > 1
        /\ json_response.processing_type = "LOTE" <=> Len(processed_files) > 1
        /\ \A block \in {"priority_analysis", "changes_summary", "conflict_warnings"} :
              block \in DOMAIN json_response => Len(processed_files) > 1

=============================================================================
